---- MODULE Spec2Model ----
(***************************************************************************)
(* Model of the mindsculpt memory core: the MemoryManager graph store and  *)
(* its search and the PromptBuilder (src/src/services/promptBuilder.ts),   *)
(* the ClassificationService normalizer                                    *)
(* (src/src/services/ClassificationService.ts) and the PersonalityManager  *)
(* (src/src/services/personalityManager.ts).                               *)
(*                                                                         *)
(* Conventions.  Scores are held in tenths: importance 0.5 is 5, the       *)
(* domain [0,1] is 0..10 and [-1,1] is -10..10.  A JavaScript string is a  *)
(* sequence of one-character strings.  The Map `memories` is the sequence  *)
(* of its values in insertion order; the key of an entry is always the id  *)
(* of its value (lines 258, 297, 326).  An optional field that is          *)
(* undefined is a field that is absent from the record.                    *)
(***************************************************************************)
EXTENDS Integers, Sequences, FiniteSets, TLC

\* Bounds of the model.
MaxClock   == 1    \* Date.now() ranges over 0..MaxClock
MaxRand    == 2    \* Math.random() suffix of an id ranges over 1..MaxRand
MaxGlimpse == 1    \* Math.random() suffix of a glimpse id: 1..MaxGlimpse
MaxCalls   == 2    \* number of calls issued after the load in a behaviour
MaxStored  == 3    \* length of a collection that is searched as given
MaxBatch   == 2    \* number of texts handed to classifyBatch

\* What a variable of the program holds when it holds null.
Absent == [absent |-> TRUE]

\* The two placeholders of a prompt template.
PersonalitySlot == "{personality}"
ContextSlot     == "{context}"

\* DEFAULT_TEMPLATE.  A text is the sequence of its pieces; a placeholder is
\* a piece of its own.
DEFAULT_TEMPLATE ==
    [system |->
         <<"You are an AI assistant with a persistent memory and personality.",
           "\n1. NEVER greet the user if ANY previous interaction exists in Relevant Memories",
           "\n2. ALWAYS check memories before responding",
           "\n3. If memories contain ANY greeting, respond without new greeting",
           "\nYour Personality:\n", PersonalitySlot,
           "\nCurrent Context:\n", ContextSlot>>,
     context            |-> <<"CONVERSATION HISTORY:\n", ContextSlot>>,
     memory_prefix      |-> <<"\nRELEVANT MEMORIES:\n">>,
     memory_suffix      |-> <<"\nEND MEMORIES\n">>,
     personality_prefix |-> <<"\nPERSONALITY TRAITS:\n">>,
     personality_suffix |-> <<>>]

VARIABLES
    memories,   \* MemoryManager.memories, values in Map insertion order
    persisted,  \* the snapshot held by the storage provider
    now,        \* the value Date.now() returns
    calls,      \* number of calls issued so far
    pre,        \* memories as they were when the last call was issued
    call,       \* the last call: operation and arguments
    outcome,    \* how the last call settled
    saved,      \* snapshots the last call passed to storageProvider.saveMemories
    emitted,    \* memoryUpdate events the last call emitted
    returned,   \* the value the last call resolved with, as a sequence
    argAfter,   \* params.memories as the caller finds it after searchMemories
    prompts,    \* prompts the last call passed to llmProvider.generateCompletion
    inflight,   \* the promises not yet settled, and the settled ones
    asked,      \* buildPrompt: the calls it made on its two providers
    template,   \* PromptBuilder.template
    personality,        \* PersonalityManager.personality
    storedPersonality,  \* the profile held by the personality storage provider
    prePersonality,     \* personality as it was when the last call was issued
    heap,       \* the objects of the personality module, by address
    managers    \* the PersonalityManager instances that share the module

\* The variables of the PersonalityManager.
profileVars == <<personality, storedPersonality, prePersonality>>

\* The variables of the PromptBuilder.
builderVars == <<asked, template>>

\* The variables of PersonalityManager instances that live side by side.
heapVars == <<heap, managers>>

vars == <<memories, persisted, now, calls, pre, call, outcome, saved,
          emitted, returned, argAfter, prompts, inflight, asked, template,
          personality, storedPersonality, prePersonality, heap, managers>>

----------------------------------------------------------------------------
\* Identifiers

\* `mem_${Date.now()}_${Math.random()...}`: a timestamp and a random suffix.
MemoryId(t, r) == <<t, r>>

\* An id no createMemory call of the model generates.
MissingId == MemoryId(MaxClock + 1, 1)

GlimpseIds == 1..MaxGlimpse

----------------------------------------------------------------------------
\* Arrays and the Map

includes(list, x) == \E i \in 1..Len(list) : list[i] = x

IndexOf(mems, id) ==
    IF \E i \in 1..Len(mems) : mems[i].id = id
    THEN CHOOSE i \in 1..Len(mems) : mems[i].id = id
    ELSE 0

MapHas(mems, id) == IndexOf(mems, id) # 0

MapGet(mems, id) == mems[IndexOf(mems, id)]

\* Map.prototype.set: an existing key keeps its position.
MapSet(mems, m) ==
    IF MapHas(mems, m.id)
    THEN [mems EXCEPT ![IndexOf(mems, m.id)] = m]
    ELSE Append(mems, m)

MapDelete(mems, id) == SelectSeq(mems, LAMBDA m : m.id # id)

StoredIds(mems) == { mems[i].id : i \in 1..Len(mems) }

\* {...a, ...b}
Spread(a, b) ==
    [f \in (DOMAIN a) \cup (DOMAIN b) |-> IF f \in DOMAIN b THEN b[f] ELSE a[f]]

----------------------------------------------------------------------------
\* Strings

LowerChar(c) ==
    CASE c = "A" -> "a"
      [] c = "B" -> "b"
      [] c = "G" -> "g"
      [] OTHER -> c

toLowerCase(str) == [i \in 1..Len(str) |-> LowerChar(str[i])]

\* String.prototype.includes
StrIncludes(str, sub) ==
    \E i \in 0..(Len(str) - Len(sub)) : SubSeq(str, i + 1, i + Len(sub)) = sub

----------------------------------------------------------------------------
\* searchMemories (promptBuilder.ts 396-445)

Min(a, b) == IF a < b THEN a ELSE b
Max(a, b) == IF a > b THEN a ELSE b

\* Array.prototype.slice(0, end)
Slice0(arr, end) ==
    SubSeq(arr, 1, IF end < 0 THEN Max(Len(arr) + end, 0) ELSE Min(end, Len(arr)))

\* One step of the stable sort by (a, b) => b.importance - a.importance:
\* m goes behind every element that is at least as important.
RECURSIVE InsertByImportance(_, _)
InsertByImportance(sorted, m) ==
    IF sorted = <<>> THEN <<m>>
    ELSE IF Head(sorted).importance >= m.importance
         THEN <<Head(sorted)>> \o InsertByImportance(Tail(sorted), m)
         ELSE <<m>> \o sorted

RECURSIVE SortByImportance(_)
SortByImportance(arr) ==
    IF arr = <<>> THEN <<>>
    ELSE InsertByImportance(SortByImportance(SubSeq(arr, 1, Len(arr) - 1)),
                            arr[Len(arr)])

\* The conditions under which each filter is applied.
HasQuery(params) == "query" \in DOMAIN params /\ params.query # <<>>
HasImportance(params) == "importance_threshold" \in DOMAIN params
HasEmotion(params) == "emotion_threshold" \in DOMAIN params
HasFocus(params) == "focus_area" \in DOMAIN params /\ params.focus_area # <<>>
HasFrom(params) == "from_date" \in DOMAIN params /\ params.from_date # 0
HasTo(params) == "to_date" \in DOMAIN params /\ params.to_date # 0
HasLimit(params) == "limit" \in DOMAIN params /\ params.limit # 0

MatchesQuery(memory, query) ==
    \/ StrIncludes(toLowerCase(memory.text), query)
    \/ StrIncludes(toLowerCase(memory.context.focus_area), query)
    \/ /\ memory.observation # <<>>
       /\ StrIncludes(toLowerCase(memory.observation), query)

\* The chain of filters.
SearchFilter(params, arr) ==
    LET f1 == IF HasQuery(params)
              THEN SelectSeq(arr, LAMBDA m :
                       MatchesQuery(m, toLowerCase(params.query)))
              ELSE arr
        f2 == IF HasImportance(params)
              THEN SelectSeq(f1, LAMBDA m :
                       m.importance >= params.importance_threshold)
              ELSE f1
        f3 == IF HasEmotion(params)
              THEN SelectSeq(f2, LAMBDA m :
                       m.emotion_score >= params.emotion_threshold)
              ELSE f2
        f4 == IF HasFocus(params)
              THEN SelectSeq(f3, LAMBDA m :
                       m.context.focus_area = params.focus_area)
              ELSE f3
        f5 == IF HasFrom(params)
              THEN SelectSeq(f4, LAMBDA m : m.created_at >= params.from_date)
              ELSE f4
    IN IF HasTo(params)
       THEN SelectSeq(f5, LAMBDA m : m.created_at <= params.to_date)
       ELSE f5

\* results is still the caller's own array when sort is reached: memories
\* was supplied and no filter made a new array.
SortsSupplied(params) ==
    /\ "memories" \in DOMAIN params
    /\ ~(HasQuery(params) \/ HasImportance(params) \/ HasEmotion(params)
         \/ HasFocus(params) \/ HasFrom(params) \/ HasTo(params))

\* The sequence searchMemories resolves with.
SearchResult(params, mems) ==
    LET base == IF "memories" \in DOMAIN params THEN params.memories ELSE mems
        sorted == SortByImportance(SearchFilter(params, base))
    IN IF HasLimit(params) THEN Slice0(sorted, params.limit) ELSE sorted

\* params.memories after the call (empty when none was supplied).
SuppliedAfter(params) ==
    IF "memories" \notin DOMAIN params THEN <<>>
    ELSE IF SortsSupplied(params) THEN SortByImportance(params.memories)
    ELSE params.memories

Reverse(arr) == [i \in 1..Len(arr) |-> arr[Len(arr) + 1 - i]]

----------------------------------------------------------------------------
\* Inputs of the store operations

EmptyConversation == [agent_messages |-> <<>>, user_messages |-> <<>>]

GeneralContext == [focus_area |-> <<"g">>]

\* Ids a caller passes: one it was given, or one that is not stored.
ArgIds(mems) == StoredIds(mems) \cup {MissingId}

\* The id of the oldest entry, for link lists a caller supplies.
OldestId(mems) == IF mems = <<>> THEN MissingId ELSE mems[1].id

PlainDraft(i) ==
    [text |-> <<"a">>, context |-> GeneralContext, importance |-> i,
     emotion_score |-> 0]

\* Drafts and partials that differ in their link lists.
GraphDrafts(mems) ==
    { PlainDraft(9),
      Spread(PlainDraft(9), [linked_memories |-> <<OldestId(mems)>>]) }

GraphPartials(mems) == { [linked_memories |-> <<OldestId(mems)>>] }

\* Drafts and partials that differ in their scalar fields; the second
\* partial names the three frozen fields together with a mutable one.
FieldDrafts == { PlainDraft(9), PlainDraft(14) }

FieldPartials ==
    { [importance |-> 14],
      [id |-> MissingId, created_at |-> MaxClock + 1,
       glimpse_id |-> MaxGlimpse + 1, importance |-> 9] }

\* Criteria of searchMemories issued against the store.
StoreCriteria(mems) ==
    { [importance_threshold |-> 9, limit |-> 1],
      [importance_threshold |-> 9],
      [memories |-> mems],
      [memories |-> Reverse(mems)],
      [memories |-> Reverse(mems), importance_threshold |-> 9] }

\* Outcomes of the provider's saveMemories.
SaveSucceeds == {TRUE}
SaveMayFail == BOOLEAN

----------------------------------------------------------------------------
\* MemoryManager

\* The record createMemory builds.  `ord` is not a field of the program: it
\* numbers the records in the order of their creation, so that "created
\* earlier" can be stated.
NewMemory(draft, id, glimpse, t, ord) ==
    Spread(draft,
           [id |-> id,
            glimpse_id |-> glimpse,
            created_at |-> t,
            linked_memories |->
                IF "linked_memories" \in DOMAIN draft
                THEN draft.linked_memories ELSE <<>>,
            observation |->
                IF "observation" \in DOMAIN draft /\ draft.observation # <<>>
                THEN draft.observation ELSE <<>>,
            conversation |->
                IF "conversation" \in DOMAIN draft
                THEN draft.conversation ELSE EmptyConversation,
            ord |-> ord])

\* The number of the next record: larger than that of every stored one.
NextOrd(mems) ==
    IF mems = <<>> THEN 1
    ELSE 1 + CHOOSE n \in { mems[i].ord : i \in 1..Len(mems) } :
                 \A i \in 1..Len(mems) : mems[i].ord <= n

\* Collections that are searched as given: up to MaxStored records that
\* differ in importance, the k-th stored under the k-th id.
SearchImportances == {3, 5, 9}

SearchRecord(k, i) == NewMemory(PlainDraft(i), MemoryId(0, k), 1, 0, k)

SearchCollections ==
    UNION { { [k \in 1..n |-> SearchRecord(k, imp[k])] :
                imp \in [1..n -> SearchImportances] } : n \in 0..MaxStored }

\* Criteria made of a threshold and a limit.
ThresholdLimitCriteria ==
    { [importance_threshold |-> t, limit |-> n] :
        t \in {0, 5, 9, 10}, n \in 0..(MaxStored + 1) }

\* A save that hands the collection over and leaves the snapshot as it was.
saveMemoriesUnwritten(mems, ok) ==
    /\ saved' = <<mems>>
    /\ persisted' = persisted

\* saveMemories: the whole collection is handed to the provider, which
\* either replaces its snapshot or fails.
saveMemories(mems, ok) ==
    /\ saved' = <<mems>>
    /\ persisted' = IF ok THEN mems ELSE persisted

\* A call that resolves whatever became of its save.
SettledResolved(ok) == "ok"

\* A call settles as its save did: the await of saveMemories rethrows.
Settled(ok) == IF ok THEN "ok" ELSE "savefail"

\* An emit that does not wait for the save.
EmittedBeforeSave(ok, event) == <<event>>

\* The events of a handler: its emit stands below the awaited save, and
\* runs only when the save has completed.
Emitted(ok, event) == IF ok THEN <<event>> ELSE <<>>

\* Every call is counted and leaves the collection it found in pre.
Issued ==
    /\ calls < MaxCalls
    /\ calls' = calls + 1
    /\ pre' = memories
    /\ UNCHANGED <<prompts, inflight, builderVars, profileVars, heapVars>>

\* A rejection that comes only after the collection was saved.
RejectedAfterSave(reason) ==
    /\ outcome' = reason
    /\ memories' = memories
    /\ persisted' = memories
    /\ saved' = <<memories>>
    /\ emitted' = <<>>
    /\ returned' = <<>>

\* A call that rejects before it touches anything.
Rejected(reason) ==
    /\ outcome' = reason
    /\ memories' = memories
    /\ persisted' = persisted
    /\ saved' = <<>>
    /\ emitted' = <<>>
    /\ returned' = <<>>

createMemory(drafts, oks) ==
    /\ Issued
    /\ \E draft \in drafts, r \in 1..MaxRand, g \in GlimpseIds, ok \in oks :
         LET newMemory == NewMemory(draft, MemoryId(now, r), g, now,
                                   NextOrd(memories))
             mems == MapSet(memories, newMemory)
         IN /\ memories' = mems
            /\ saveMemories(mems, ok)
            /\ outcome' = Settled(ok)
            /\ emitted' = Emitted(ok, [type |-> "create",
                                       memory |-> newMemory])
            /\ returned' = IF ok THEN <<newMemory>> ELSE <<>>
            /\ call' = [op |-> "createMemory", arg |-> draft]
    /\ UNCHANGED <<now, argAfter>>

\* An updateMemory that lets the partial win on every field.
UpdatedMemoryUnfrozen(memory, id, updates) == Spread(memory, updates)

\* The record updateMemory stores: the partial over the old record, then
\* the three frozen fields restored.
UpdatedMemory(memory, id, updates) ==
    Spread(Spread(memory, updates),
           [id |-> id,
            created_at |-> memory.created_at,
            glimpse_id |-> memory.glimpse_id])

updateMemory(partials, oks) ==
    /\ Issued
    /\ \E id \in ArgIds(memories), updates \in partials, ok \in oks :
         /\ call' = [op |-> "updateMemory", id |-> id, arg |-> updates]
         /\ IF ~MapHas(memories, id)
            THEN Rejected("notfound")
            ELSE LET updatedMemory ==
                         UpdatedMemory(MapGet(memories, id), id, updates)
                     mems == MapSet(memories, updatedMemory)
                 IN /\ memories' = mems
                    /\ saveMemories(mems, ok)
                    /\ outcome' = Settled(ok)
                    /\ emitted' = Emitted(ok, [type |-> "update",
                                               memory |-> updatedMemory])
                    /\ returned' = IF ok THEN <<updatedMemory>> ELSE <<>>
    /\ UNCHANGED <<now, argAfter>>

\* A deleteMemory that removes the entry and leaves the link lists alone.
DeleteWithoutCascade(mems, id) == MapDelete(mems, id)

\* The collection after deleteMemory's removal and its cascade.
DeleteCascade(mems, id) ==
    LET rest == MapDelete(mems, id)
    IN [i \in 1..Len(rest) |->
          IF includes(rest[i].linked_memories, id)
          THEN [rest[i] EXCEPT
                  !.linked_memories = SelectSeq(@, LAMBDA linkId : linkId # id)]
          ELSE rest[i]]

deleteMemory(oks) ==
    /\ Issued
    /\ \E id \in ArgIds(memories), ok \in oks :
         /\ call' = [op |-> "deleteMemory", id |-> id]
         /\ IF ~MapHas(memories, id)
            THEN Rejected("notfound")
            ELSE LET memory == MapGet(memories, id)
                     mems == DeleteCascade(memories, id)
                 IN /\ memories' = mems
                    /\ saveMemories(mems, ok)
                    /\ outcome' = Settled(ok)
                    /\ emitted' = Emitted(ok, [type |-> "delete",
                                               memory |-> memory])
                    /\ returned' = <<>>
    /\ UNCHANGED <<now, argAfter>>

\* A push that does not look for the id first.
PushAlways(list, x) == Append(list, x)

\* linked_memories after `if (!includes(x)) push(x)`.
PushUnlessIncluded(list, x) == IF includes(list, x) THEN list ELSE Append(list, x)

\* A linkMemories that records the link on the source only.
LinkSourceOnly(mems, sourceId, targetId) ==
    [mems EXCEPT ![IndexOf(mems, sourceId)].linked_memories =
                     PushUnlessIncluded(@, targetId)]

\* The collection after linkMemories' two pushes.  With sourceId = targetId
\* both pushes act on the same record.
LinkBoth(mems, sourceId, targetId) ==
    LET s == IndexOf(mems, sourceId)
        t == IndexOf(mems, targetId)
        one == [mems EXCEPT ![s].linked_memories = PushUnlessIncluded(@, targetId)]
    IN [one EXCEPT ![t].linked_memories = PushUnlessIncluded(@, sourceId)]

linkMemories(oks) ==
    /\ Issued
    /\ \E sourceId \in ArgIds(memories), targetId \in ArgIds(memories), ok \in oks :
         /\ call' = [op |-> "linkMemories", id |-> sourceId, target |-> targetId]
         /\ IF ~MapHas(memories, sourceId) \/ ~MapHas(memories, targetId)
            THEN Rejected("notfound")
            ELSE LET mems == LinkBoth(memories, sourceId, targetId)
                 IN /\ memories' = mems
                    /\ saveMemories(mems, ok)
                    /\ outcome' = Settled(ok)
                    /\ emitted' = Emitted(ok, [type |-> "link",
                                               memory |-> MapGet(mems, sourceId),
                                               linked_to |-> <<targetId>>])
                    /\ returned' = <<>>
    /\ UNCHANGED <<now, argAfter>>

\* A getMemory that treats an id that is not stored as the other handlers
\* do.
getMemoryThrowsOnAbsent(oks) ==
    /\ Issued
    /\ \E id \in ArgIds(memories), ok \in oks :
         /\ call' = [op |-> "getMemory", id |-> id]
         /\ IF ~MapHas(memories, id)
            THEN Rejected("notfound")
            ELSE LET memory == Spread(MapGet(memories, id),
                                      [last_accessed |-> now])
                     mems == MapSet(memories, memory)
                 IN /\ memories' = mems
                    /\ saveMemories(mems, ok)
                    /\ outcome' = Settled(ok)
                    /\ returned' = IF ok THEN <<memory>> ELSE <<>>
                    /\ emitted' = <<>>
    /\ UNCHANGED <<now, argAfter>>

\* getMemory (lines 450-457)
getMemory(oks) ==
    /\ Issued
    /\ \E id \in ArgIds(memories), ok \in oks :
         /\ call' = [op |-> "getMemory", id |-> id]
         /\ IF ~MapHas(memories, id)
            THEN /\ outcome' = "ok"
                 /\ memories' = memories
                 /\ persisted' = persisted
                 /\ saved' = <<>>
                 /\ returned' = <<>>
            ELSE LET memory == Spread(MapGet(memories, id),
                                      [last_accessed |-> now])
                     mems == MapSet(memories, memory)
                 IN /\ memories' = mems
                    /\ saveMemories(mems, ok)
                    /\ outcome' = Settled(ok)
                    /\ returned' = IF ok THEN <<memory>> ELSE <<>>
         /\ emitted' = <<>>
    /\ UNCHANGED <<now, argAfter>>

getAllMemories ==
    /\ Issued
    /\ call' = [op |-> "getAllMemories"]
    /\ outcome' = "ok"
    /\ returned' = memories
    /\ saved' = <<>>
    /\ emitted' = <<>>
    /\ UNCHANGED <<memories, persisted, now, argAfter>>

searchMemories(criteria) ==
    /\ Issued
    /\ \E params \in criteria :
         /\ call' = [op |-> "searchMemories", arg |-> params]
         /\ returned' = SearchResult(params, memories)
         /\ argAfter' = SuppliedAfter(params)
    /\ outcome' = "ok"
    /\ saved' = <<>>
    /\ emitted' = <<>>
    /\ UNCHANGED <<memories, persisted, now>>

\* Date.now() advances.
Tick ==
    /\ now < MaxClock
    /\ now' = now + 1
    /\ UNCHANGED <<memories, persisted, calls, pre, call, outcome, saved,
                   emitted, returned, argAfter, prompts, inflight, builderVars,
                   profileVars, heapVars>>

\* Snapshots the storage provider holds when the manager is constructed:
\* none, or what two createMemory calls, or these and a linkMemories call,
\* saved in millisecond 0.  Their ids are ids the generator gives in that
\* millisecond, which is the one the clock starts in.
LoadedRecord(k) ==
    NewMemory(PlainDraft(9), MemoryId(0, k), 1, 0, k)

TwoLoaded == MapSet(MapSet(<<>>, LoadedRecord(1)), LoadedRecord(2))

LoadedSnapshots ==
    { <<>>,
      TwoLoaded,
      LinkBoth(TwoLoaded, MemoryId(0, 1), MemoryId(0, 2)) }

\* The manager once its constructor's load has filled the Map.
Init ==
    /\ memories \in LoadedSnapshots
    /\ persisted = memories
    /\ now = 0
    /\ calls = 0
    /\ pre = memories
    /\ call = [op |-> "none"]
    /\ outcome = "none"
    /\ saved = <<>>
    /\ emitted = <<>>
    /\ returned = <<>>
    /\ argAfter = <<>>
    /\ prompts = <<>>
    /\ inflight = <<>>
    /\ asked = <<>>
    /\ template = DEFAULT_TEMPLATE
    /\ personality = Absent
    /\ storedPersonality = Absent
    /\ prePersonality = Absent
    /\ heap = <<>>
    /\ managers = <<>>

\* The store with drafts and partials that differ in their link lists.
Next ==
    \/ createMemory(GraphDrafts(memories), SaveSucceeds)
    \/ updateMemory(GraphPartials(memories), SaveSucceeds)
    \/ deleteMemory(SaveSucceeds)
    \/ linkMemories(SaveSucceeds)
    \/ getMemory(SaveSucceeds)
    \/ Tick

Spec == Init /\ [][Next]_vars

\* The store with drafts and partials that differ in their scalar fields,
\* and its searches.
NextFields ==
    \/ createMemory(FieldDrafts, SaveSucceeds)
    \/ updateMemory(FieldPartials, SaveSucceeds)
    \/ deleteMemory(SaveSucceeds)
    \/ searchMemories(StoreCriteria(memories))
    \/ getAllMemories
    \/ Tick

SpecFields == Init /\ [][NextFields]_vars

\* The store with a provider whose saveMemories may fail, and its reads,
\* all within one millisecond.
SaveDrafts == { PlainDraft(9) }

SaveCriteria == { [importance_threshold |-> 9, limit |-> 1] }

NextSaves ==
    \/ createMemory(SaveDrafts, SaveMayFail)
    \/ updateMemory(GraphPartials(memories), SaveMayFail)
    \/ deleteMemory(SaveMayFail)
    \/ linkMemories(SaveMayFail)
    \/ getMemory(SaveMayFail)
    \/ getAllMemories
    \/ searchMemories(SaveCriteria)

SpecSaves == Init /\ [][NextSaves]_vars

\* The store with the calls that make and unmake links, and no caller
\* that hands in a link list of its own: Init holds the empty store and
\* the stores that createMemory and linkMemories make of it.
NextLinks ==
    \/ createMemory(SaveDrafts, SaveMayFail)
    \/ linkMemories(SaveMayFail)
    \/ deleteMemory(SaveMayFail)
    \/ getMemory(SaveMayFail)
    \/ Tick

SpecLinks == Init /\ [][NextLinks]_vars

\* searchMemories over a collection taken as given.
InitSearch ==
    /\ memories \in SearchCollections
    /\ persisted = memories
    /\ pre = memories
    /\ now = 0
    /\ calls = 0
    /\ call = [op |-> "none"]
    /\ outcome = "none"
    /\ saved = <<>>
    /\ emitted = <<>>
    /\ returned = <<>>
    /\ argAfter = <<>>
    /\ prompts = <<>>
    /\ inflight = <<>>
    /\ asked = <<>>
    /\ template = DEFAULT_TEMPLATE
    /\ personality = Absent
    /\ storedPersonality = Absent
    /\ prePersonality = Absent
    /\ heap = <<>>
    /\ managers = <<>>

NextSearch ==
    \/ searchMemories(ThresholdLimitCriteria)

SpecSearch == InitSearch /\ [][NextSearch]_vars

----------------------------------------------------------------------------
\* LocalStorageMemoryProvider (promptBuilder.ts, lines 151-190)
\*
\* The provider searches the array it parses from localStorage, which is
\* the snapshot in `persisted`; JSON.parse hands it an array of its own, so
\* that its sort moves nothing a caller holds.

\* The test of filterMemories' query filter (lines 170-173).
ProviderMatchesQuery(memory, query) ==
    \/ StrIncludes(toLowerCase(memory.text), query)
    \/ StrIncludes(toLowerCase(memory.context.focus_area), query)

\* filterMemories (lines 165-189): the query and importance filters, the
\* sort and the slice.
filterMemories(mems, params) ==
    LET f1 == IF HasQuery(params)
              THEN SelectSeq(mems, LAMBDA m :
                       ProviderMatchesQuery(m, toLowerCase(params.query)))
              ELSE mems
        f2 == IF HasImportance(params)
              THEN SelectSeq(f1, LAMBDA m :
                       m.importance >= params.importance_threshold)
              ELSE f1
        sorted == SortByImportance(f2)
    IN IF HasLimit(params) THEN Slice0(sorted, params.limit) ELSE sorted

\* LocalStorageMemoryProvider.searchMemories (lines 158-163)
providerSearchMemories(criteria) ==
    /\ Issued
    /\ \E params \in criteria :
         /\ call' = [op |-> "providerSearchMemories", arg |-> params]
         /\ returned' = filterMemories(persisted, params)
    /\ outcome' = "ok"
    /\ saved' = <<>>
    /\ emitted' = <<>>
    /\ UNCHANGED <<memories, persisted, now, argAfter>>

\* Records that a query finds by their text, by their focus area, by their
\* observation, or not at all.
QueryDrafts ==
    { PlainDraft(9),
      Spread(PlainDraft(3), [text |-> <<"O", "k">>]),
      Spread(PlainDraft(5), [context |-> [focus_area |-> <<"o">>]]),
      Spread(PlainDraft(5), [observation |-> <<"o", "b">>]) }

QueryCollections ==
    UNION { { [k \in 1..n |-> NewMemory(draft[k], MemoryId(0, k), 1, 0, k)] :
                draft \in [1..n -> QueryDrafts] } : n \in 0..MaxStored }

\* Criteria made of query, importance_threshold and limit; a limit of 0
\* stands for none.
QueryCriteria ==
    { Spread(Spread(q, t), n) :
        q \in { <<>> } \cup { [query |-> s] : s \in { <<>>, <<"o">>, <<"G">> } },
        t \in { <<>>, [importance_threshold |-> 5] },
        n \in { [limit |-> 0], [limit |-> 1] } }

\* One collection, held by the manager and stored for the provider.
InitProviders ==
    /\ memories \in QueryCollections
    /\ persisted = memories
    /\ pre = memories
    /\ now = 0
    /\ calls = 0
    /\ call = [op |-> "none"]
    /\ outcome = "none"
    /\ saved = <<>>
    /\ emitted = <<>>
    /\ returned = <<>>
    /\ argAfter = <<>>
    /\ prompts = <<>>
    /\ inflight = <<>>
    /\ asked = <<>>
    /\ template = DEFAULT_TEMPLATE
    /\ personality = Absent
    /\ storedPersonality = Absent
    /\ prePersonality = Absent
    /\ heap = <<>>
    /\ managers = <<>>

NextProviders ==
    \/ searchMemories(QueryCriteria)
    \/ providerSearchMemories(QueryCriteria)

SpecProviders == InitProviders /\ [][NextProviders]_vars

----------------------------------------------------------------------------
\* ClassificationService (ClassificationService.ts)
\*
\* Values of the classifier are tagged with their JavaScript type; its
\* strings are atoms.  A completion text is a sequence of JSON tokens, with
\* a junk token for everything that is no JSON token.

Undefined == [t |-> "undefined"]
Null == [t |-> "null"]
NaN == [t |-> "NaN"]
Num(n) == [t |-> "number", v |-> n]
Str(str) == [t |-> "string", v |-> str]
Arr(elems) == [t |-> "array", v |-> elems]
Obj(fields) == [t |-> "object", v |-> fields]

Punct(c) == [k |-> c]
Scalar(value) == [k |-> "scalar", v |-> value]
Junk == [k |-> "junk"]

\* JSON.parse.  A parse step yields the value and the tokens that follow
\* it, or fails.
Failed == [ok |-> FALSE]
Parsed(value, rest) == [ok |-> TRUE, value |-> value, rest |-> rest]

RECURSIVE ParseValue(_)
RECURSIVE ParseElements(_, _)
RECURSIVE ParseMembers(_, _)

\* after "[" or after "," inside an array: an element, then "," or "]"
ParseElements(toks, elems) ==
    LET e == ParseValue(toks)
    IN IF ~e.ok \/ e.rest = <<>> THEN Failed
       ELSE IF Head(e.rest) = Punct("]")
            THEN Parsed(Arr(Append(elems, e.value)), Tail(e.rest))
       ELSE IF Head(e.rest) = Punct(",")
            THEN ParseElements(Tail(e.rest), Append(elems, e.value))
       ELSE Failed

\* after "{" or after "," inside an object: key ":" value, then "," or "}"
ParseMembers(toks, fields) ==
    IF Len(toks) < 3 THEN Failed
    ELSE IF toks[1].k # "scalar" \/ toks[1].v.t # "string"
            \/ toks[2] # Punct(":") THEN Failed
    ELSE LET m == ParseValue(SubSeq(toks, 3, Len(toks)))
             key == toks[1].v.v
         IN IF ~m.ok \/ m.rest = <<>> THEN Failed
            ELSE LET more == Spread(fields, [f \in {key} |-> m.value])
                 IN IF Head(m.rest) = Punct("}")
                    THEN Parsed(Obj(more), Tail(m.rest))
                    ELSE IF Head(m.rest) = Punct(",")
                    THEN ParseMembers(Tail(m.rest), more)
                    ELSE Failed

ParseValue(toks) ==
    IF toks = <<>> THEN Failed
    ELSE IF Head(toks).k = "scalar" THEN Parsed(Head(toks).v, Tail(toks))
    ELSE IF Head(toks) = Punct("[")
         THEN IF Len(toks) >= 2 /\ toks[2] = Punct("]")
              THEN Parsed(Arr(<<>>), SubSeq(toks, 3, Len(toks)))
              ELSE ParseElements(Tail(toks), <<>>)
    ELSE IF Head(toks) = Punct("{")
         THEN IF Len(toks) >= 2 /\ toks[2] = Punct("}")
              THEN Parsed(Obj(<<>>), SubSeq(toks, 3, Len(toks)))
              ELSE ParseMembers(Tail(toks), <<>>)
    ELSE Failed

\* JSON.parse(response): the whole text must be one value.
JSONparse(text) ==
    LET r == ParseValue(text)
    IN IF r.ok /\ r.rest = <<>> THEN [ok |-> TRUE, value |-> r.value]
       ELSE Failed

\* JSON text of a flat object whose fields are written in the given order.
RECURSIVE MemberTokens(_, _)
MemberTokens(fields, names) ==
    IF names = <<>> THEN <<>>
    ELSE LET value == fields[Head(names)]
             valueToks ==
                 IF value.t = "array"
                 THEN <<Punct("[")>>
                      \o (IF value.v = <<>> THEN <<>>
                          ELSE <<Scalar(value.v[1])>>)
                      \o <<Punct("]")>>
                 ELSE <<Scalar(value)>>
         IN <<Scalar(Str(Head(names))), Punct(":")>> \o valueToks
            \o (IF Tail(names) = <<>> THEN <<>> ELSE <<Punct(",")>>)
            \o MemberTokens(fields, Tail(names))

ObjectText(fields, names) ==
    <<Punct("{")>> \o MemberTokens(fields, names) \o <<Punct("}")>>

\* Truthiness, for `x || fallback`.
Truthy(x) ==
    CASE x.t = "number" -> x.v # 0
      [] x.t = "string" -> x.v # ""
      [] x.t \in {"array", "object"} -> TRUE
      [] OTHER -> FALSE

OrElse(x, fallback) == IF Truthy(x) THEN x ELSE fallback

\* result.name for a parsed value that is not null.
Field(result, name) ==
    IF result.t = "object" /\ name \in DOMAIN result.v
    THEN result.v[name] ELSE Undefined

\* ToNumber, as Math.min and Math.max apply it.
ToNumber(x) ==
    CASE x.t = "number" -> x
      [] x.t = "string" ->
            (CASE x.v = "" -> Num(0)
               [] x.v = "0.7" -> Num(7)
               [] OTHER -> NaN)
      [] x.t = "null" -> Num(0)
      [] x.t = "array" ->
            (IF x.v = <<>> THEN Num(0)
             ELSE IF Len(x.v) = 1 /\ x.v[1].t = "number" THEN x.v[1]
             ELSE NaN)
      [] OTHER -> NaN

MathMin(a, b) ==
    LET x == ToNumber(a)
        y == ToNumber(b)
    IN IF x = NaN \/ y = NaN THEN NaN
       ELSE IF x.v < y.v THEN x ELSE y

MathMax(a, b) ==
    LET x == ToNumber(a)
        y == ToNumber(b)
    IN IF x = NaN \/ y = NaN THEN NaN
       ELSE IF x.v > y.v THEN x ELSE y

clamp(value, min, max) == MathMax(Num(min), MathMin(Num(max), value))

\* A default record that carries the fallback observation of the parse path.
getDefaultClassificationNarrated ==
    [observation |-> Str("User and AI engaged in conversation."),
     importance |-> Num(5),
     emotion_score |-> Num(0),
     focus_area |-> Str("general"),
     interaction_type |-> Str("general"),
     suggested_links |-> Arr(<<>>)]

getDefaultClassification ==
    [observation |-> Str(""),
     importance |-> Num(5),
     emotion_score |-> Num(0),
     focus_area |-> Str("general"),
     interaction_type |-> Str("general"),
     suggested_links |-> Arr(<<>>)]

\* The record built from a parsed value that is not null.
Normalized(result) ==
    [observation |->
         OrElse(Field(result, "observation"),
                Str("User and AI engaged in conversation.")),
     user_state |->
         OrElse(Field(result, "user_state"),
                Str("Neutral, engaging in conversation")),
     scene_details |->
         OrElse(Field(result, "scene_details"),
                Str("The interaction is at an early stage, with no specific context established yet.")),
     importance |-> clamp(OrElse(Field(result, "importance"), Num(5)), 0, 10),
     emotion_score |->
         clamp(OrElse(Field(result, "emotion_score"), Num(0)), -10, 10),
     focus_area |-> OrElse(Field(result, "focus_area"), Str("general")),
     interaction_type |->
         OrElse(Field(result, "interaction_type"), Str("general")),
     suggested_links |->
         IF Field(result, "suggested_links").t = "array"
         THEN Field(result, "suggested_links") ELSE Arr(<<>>)]

\* The prompt: the fixed instructions and the text, after the user context
\* when one is given and not empty.
ClassifyPrompt(text, userContext) ==
    IF userContext # ""
    THEN <<"Analyze the following interaction", "User message", userContext,
           "AI response", text>>
    ELSE <<"Analyze the following interaction", "Text to analyze", text>>

\* How a block of code or a promise settles: with a value, or by throwing.
Thrown == [threw |-> TRUE]
Returned(value) == [threw |-> FALSE, value |-> value]

\* The try block of classifyWithLLM, given how generateCompletion settles:
\* it throws when the completion rejects, when JSON.parse throws and when
\* a field of null is read.
TryClassify(completion) ==
    IF completion.kind = "rejects" THEN Thrown
    ELSE LET result == JSONparse(completion.text)
         IN IF ~result.ok THEN Thrown
            ELSE IF result.value.t = "null" THEN Thrown
            ELSE Returned(Normalized(result.value))

\* A catch that lets the error through.
CatchRethrows(settled) == settled

\* `catch (error) { ...; return this.getDefaultClassification(); }`
CatchReturnsDefault(settled) ==
    IF settled.threw THEN Returned(getDefaultClassification) ELSE settled

\* classifyWithLLM: the try block under its catch.
classifyWithLLM(completion) == CatchReturnsDefault(TryClassify(completion))

\* Completion texts that are no JSON text.
MalformedTexts ==
    { <<>>,
      <<Junk>>,
      <<Junk, Punct("{"), Punct("}"), Junk>>,
      <<Punct("{")>>,
      <<Punct("{"), Scalar(Str("importance")), Punct(":"), Punct("}")>>,
      <<Punct("{"), Scalar(Str("importance")), Punct(":"), Scalar(Num(7)),
        Punct(","), Punct("}")>>,
      <<Punct("{"), Punct("}"), Punct("}")>>,
      <<Punct("["), Scalar(Num(7))>>,
      <<Scalar(Num(7)), Scalar(Num(7))>> }

\* JSON texts of values that are no objects.
NullText == <<Scalar(Null)>>

PlainTexts ==
    { NullText, <<Scalar(Num(7))>>, <<Scalar(Str("fine"))>>,
      <<Punct("["), Punct("]")>>, <<Punct("{"), Punct("}")>> }

\* JSON texts of objects: each field is absent or has one of a few values.
FieldOrder ==
    <<"observation", "importance", "emotion_score", "focus_area",
      "suggested_links">>

FieldChoices ==
    [observation : {Undefined, Str("calm talk"), Str("")},
     importance : {Undefined, Num(0), Num(7), Num(14), Num(-3), Str("high")},
     emotion_score : {Undefined, Num(0), Num(3), Num(-50), Num(25)},
     focus_area : {Undefined, Str("work")},
     suggested_links : {Undefined, Arr(<<Str("m1")>>), Str("m1")}]

ObjectTexts ==
    { ObjectText(choice,
                 SelectSeq(FieldOrder, LAMBDA f : choice[f] # Undefined)) :
        choice \in FieldChoices }

\* How generateCompletion settles.
Completions ==
    { [kind |-> "rejects"] }
    \cup { [kind |-> "text", text |-> text] :
             text \in MalformedTexts \cup PlainTexts \cup ObjectTexts }

ClassifyInputs == { <<"hello", "">>, <<"hello", "how are you">> }

\* How a call settles, and what it resolves with.
OutcomeOf(settled) == IF settled.threw THEN "rejects" ELSE "ok"
ValueOf(settled) == IF settled.threw THEN <<>> ELSE <<settled.value>>

\* classifyMemory: classifyWithLLM, and the default record if it throws.
\* The one generateCompletion call is the one classifyWithLLM makes.
classifyMemory ==
    /\ calls = 0
    /\ calls' = 1
    /\ \E input \in ClassifyInputs, completion \in Completions :
         LET settled == CatchReturnsDefault(classifyWithLLM(completion))
         IN /\ call' = [op |-> "classifyMemory", text |-> input[1],
                        userContext |-> input[2], completion |-> completion]
            /\ prompts' = <<ClassifyPrompt(input[1], input[2])>>
            /\ returned' = ValueOf(settled)
            /\ outcome' = OutcomeOf(settled)
    /\ UNCHANGED <<memories, persisted, now, pre, saved, emitted, argAfter,
                   inflight, builderVars, profileVars, heapVars>>

----------------------------------------------------------------------------
\* analyzeSimilarity.  Its response is a string, a sequence of one-character
\* strings, and its numbers are tenths like the scores.  The responses of
\* the model use neither exponents nor "Infinity", and parseFloat drops the
\* digits after the first fractional one, which the tenths cannot hold.

Digits == <<"0", "1", "2", "3", "4", "5", "6", "7", "8", "9">>

IsDigit(c) == \E d \in 1..10 : Digits[d] = c

DigitValue(c) == (CHOOSE d \in 1..10 : Digits[d] = c) - 1

\* The string without its leading white space.
RECURSIVE TrimStart(_)
TrimStart(str) ==
    IF str # <<>> /\ Head(str) = " " THEN TrimStart(Tail(str)) ELSE str

\* The number of digits the string starts with.
RECURSIVE DigitRun(_)
DigitRun(str) ==
    IF str # <<>> /\ IsDigit(Head(str)) THEN 1 + DigitRun(Tail(str)) ELSE 0

\* The value of a string of digits.
RECURSIVE DigitsValue(_)
DigitsValue(str) ==
    IF str = <<>> THEN 0
    ELSE 10 * DigitsValue(SubSeq(str, 1, Len(str) - 1))
         + DigitValue(str[Len(str)])

\* parseFloat: white space, a sign, then the longest prefix that is a
\* decimal literal; NaN when there is none.
parseFloat(response) ==
    LET trimmed == TrimStart(response)
        signed == trimmed # <<>> /\ Head(trimmed) \in {"-", "+"}
        sign == IF signed /\ Head(trimmed) = "-" THEN -1 ELSE 1
        body == IF signed THEN Tail(trimmed) ELSE trimmed
        n == DigitRun(body)
        rest == SubSeq(body, n + 1, Len(body))
        dotted == rest # <<>> /\ Head(rest) = "."
        f == IF dotted THEN DigitRun(Tail(rest)) ELSE 0
        tenth == IF f > 0 THEN DigitValue(rest[2]) ELSE 0
    IN IF n = 0 /\ f = 0 THEN NaN
       ELSE Num(sign * (10 * DigitsValue(SubSeq(body, 1, n)) + tenth))

SimilarityPrompt(text1, text2) ==
    <<"Compare these two texts", "Text 1", text1, "Text 2", text2>>

\* The try block of analyzeSimilarity, given how generateCompletion settles.
TrySimilarity(completion) ==
    IF completion.kind = "rejects" THEN Thrown
    ELSE Returned(clamp(parseFloat(completion.text), 0, 10))

\* `catch (error) { ...; return 0; }`
CatchReturnsZero(settled) ==
    IF settled.threw THEN Returned(Num(0)) ELSE settled

\* Responses to the similarity prompt.
NumericResponses ==
    { <<"0", ".", "7">>, <<"1">>, <<"0">>, <<" ", "0", ".", "3">>,
      <<"1", ".", "5">>, <<"-", "0", ".", "4">>, <<"+", "1", "2">>,
      <<".", "5">>, <<"0", ".", "7", "2">>, <<"0", ".", "9", " ", "o", "k">> }

NonNumericResponses ==
    { <<>>, <<"n", "o">>, <<"-">>, <<".">>, <<"o", "k", " ", "0", ".", "9">> }

SimilarityCompletions ==
    { [kind |-> "rejects"] }
    \cup { [kind |-> "text", text |-> text] :
             text \in NumericResponses \cup NonNumericResponses }

analyzeSimilarity ==
    /\ calls = 0
    /\ calls' = 1
    /\ \E input \in ClassifyInputs, completion \in SimilarityCompletions :
         LET settled == CatchReturnsZero(TrySimilarity(completion))
         IN /\ call' = [op |-> "analyzeSimilarity", text1 |-> input[1],
                        text2 |-> input[2], completion |-> completion]
            /\ prompts' = <<SimilarityPrompt(input[1], input[2])>>
            /\ returned' = ValueOf(settled)
            /\ outcome' = OutcomeOf(settled)
    /\ UNCHANGED <<memories, persisted, now, pre, saved, emitted, argAfter,
                   inflight, builderVars, profileVars, heapVars>>

----------------------------------------------------------------------------
\* classifyBatch: Promise.all over one classifyMemory call per text.  Each
\* call issues its prompt when the batch starts and waits for its own
\* completion; the completions settle one at a time, in any order.

BatchTexts ==
    UNION { [1..n -> {"hello", "bye"}] : n \in 0..MaxBatch }

ScoredText == ObjectText([importance |-> Num(7)], <<"importance">>)
ObservedText == ObjectText([observation |-> Str("calm talk")], <<"observation">>)

BatchCompletions ==
    { [kind |-> "rejects"],
      [kind |-> "text", text |-> <<Junk>>],
      [kind |-> "text", text |-> ScoredText],
      [kind |-> "text", text |-> ObservedText] }

Pending == [state |-> "pending"]

\* A classifyMemory promise that settled as the at-th of its batch.
SettledPromise(completion, settled, at) ==
    [state |-> "settled", completion |-> completion, settled |-> settled,
     at |-> at]

SettledCount(slots) ==
    Cardinality({ i \in 1..Len(slots) : slots[i].state = "settled" })

\* The values in the order in which the promises settled.
PromiseAllAsSettled(slots) ==
    IF \E i \in 1..Len(slots) :
           slots[i].state = "settled" /\ slots[i].settled.threw
    THEN [state |-> "rejected"]
    ELSE IF SettledCount(slots) < Len(slots) THEN [state |-> "pending"]
    ELSE [state |-> "fulfilled",
          value |-> [k \in 1..Len(slots) |->
                        slots[CHOOSE i \in 1..Len(slots) :
                                  slots[i].at = k].settled.value]]

\* Promise.all: rejected once a promise rejected, pending while one is
\* pending, and else fulfilled with the values in the order of the promises.
PromiseAll(slots) ==
    IF \E i \in 1..Len(slots) :
           slots[i].state = "settled" /\ slots[i].settled.threw
    THEN [state |-> "rejected"]
    ELSE IF SettledCount(slots) < Len(slots) THEN [state |-> "pending"]
    ELSE [state |-> "fulfilled",
          value |-> [i \in 1..Len(slots) |-> slots[i].settled.value]]

\* What the caller of classifyBatch has once the promises are as given.
BatchOutcome(slots) ==
    CASE PromiseAll(slots).state = "fulfilled" -> "ok"
      [] PromiseAll(slots).state = "rejected" -> "rejects"
      [] OTHER -> "pending"

BatchValue(slots) ==
    IF PromiseAll(slots).state = "fulfilled"
    THEN <<PromiseAll(slots).value>> ELSE <<>>

classifyBatch ==
    /\ calls = 0
    /\ calls' = 1
    /\ \E texts \in BatchTexts :
         LET slots == [i \in 1..Len(texts) |-> Pending]
         IN /\ call' = [op |-> "classifyBatch", texts |-> texts]
            /\ prompts' = [i \in 1..Len(texts) |-> ClassifyPrompt(texts[i], "")]
            /\ inflight' = slots
            /\ outcome' = BatchOutcome(slots)
            /\ returned' = BatchValue(slots)
    /\ UNCHANGED <<memories, persisted, now, pre, saved, emitted, argAfter,
                   builderVars, profileVars, heapVars>>

\* One generateCompletion call of the batch settles and its classifyMemory
\* call runs to its end.
completionSettles ==
    /\ call.op = "classifyBatch"
    /\ \E i \in 1..Len(inflight), completion \in BatchCompletions :
         /\ inflight[i].state = "pending"
         /\ LET settled == CatchReturnsDefault(classifyWithLLM(completion))
                slots == [inflight EXCEPT ![i] =
                             SettledPromise(completion, settled,
                                      SettledCount(inflight) + 1)]
            IN /\ inflight' = slots
               /\ outcome' = BatchOutcome(slots)
               /\ returned' = BatchValue(slots)
    /\ UNCHANGED <<memories, persisted, now, calls, pre, call, saved,
                   emitted, argAfter, prompts, builderVars, profileVars, heapVars>>

\* A ClassificationService as constructed: no call made, no store.
InitClassify ==
    /\ memories = <<>>
    /\ persisted = <<>>
    /\ now = 0
    /\ calls = 0
    /\ pre = <<>>
    /\ call = [op |-> "none"]
    /\ outcome = "none"
    /\ saved = <<>>
    /\ emitted = <<>>
    /\ returned = <<>>
    /\ argAfter = <<>>
    /\ prompts = <<>>
    /\ inflight = <<>>
    /\ asked = <<>>
    /\ template = DEFAULT_TEMPLATE
    /\ personality = Absent
    /\ storedPersonality = Absent
    /\ prePersonality = Absent
    /\ heap = <<>>
    /\ managers = <<>>

NextClassify ==
    \/ classifyMemory
    \/ analyzeSimilarity
    \/ classifyBatch
    \/ completionSettles

SpecClassify == InitClassify /\ [][NextClassify]_vars

----------------------------------------------------------------------------
\* PersonalityManager (personalityManager.ts).  Trait values are numbers in
\* tenths, tagged like the values of the classifier; the other strings of a
\* profile are atoms.

\* ARIA_FROST_PERSONALITY
DefaultProfile ==
    [agent |->
         [id |-> "default_agent", name |-> "Aria Frost",
          description |-> "A graceful and perceptive AI companion with a knack for empathy, curiosity, and problem-solving.",
          gender |-> "female"],
     traits |-> [empathy |-> Num(8), humor |-> Num(6), curiosity |-> Num(9)],
     values |-> <<"learning", "emotional_support", "problem_solving">>,
     communication |->
         [style |-> "friendly", tone |-> "warm",
          patterns |-> <<"asks reflective questions", "provides examples",
                         "encourages collaboration">>]]

\* A profile some earlier manager saved.
StoredProfile ==
    [agent |-> [id |-> "agent_123", name |-> "Nova"],
     traits |-> [empathy |-> Num(2), humor |-> Num(10)],
     values |-> <<"problem_solving", "honesty">>,
     communication |->
         [style |-> "formal", tone |-> "dry", patterns |-> <<>>]]

\* What loadPersonality finds when the manager is constructed.
InitialStores == {Absent, StoredProfile}

\* `stored ?? ARIA_FROST_PERSONALITY`
LoadedOrDefault(stored) == IF stored = Absent THEN DefaultProfile ELSE stored

\* `if (!this.personality) await this.initialize()`: the profile the rest of
\* the handler works on, and the saves that initialize made for it.
Ensured == IF personality = Absent
           THEN LoadedOrDefault(storedPersonality) ELSE personality

EnsuredSaves == IF personality = Absent THEN <<Ensured>> ELSE <<>>

EnsuredStore == IF personality = Absent THEN Ensured ELSE storedPersonality

\* `a < b` on numbers: false when either is NaN.
JsLess(a, b) == a.t = "number" /\ b.t = "number" /\ a.v < b.v

\* Every call is counted and leaves the profile it found in prePersonality.
ProfileIssued ==
    /\ calls < MaxCalls
    /\ calls' = calls + 1
    /\ prePersonality' = personality
    /\ UNCHANGED <<memories, persisted, now, pre, emitted, argAfter, prompts,
                   inflight, builderVars, heapVars>>

\* this.personality becomes p, and savePersonality hands it to the provider.
ProfileSaved(p, ok) ==
    /\ personality' = p
    /\ saved' = Append(EnsuredSaves, p)
    /\ storedPersonality' = IF ok THEN p ELSE EnsuredStore
    /\ outcome' = Settled(ok)

\* A handler that stops before it writes or saves.
ProfileKept(how) ==
    /\ personality' = Ensured
    /\ saved' = EnsuredSaves
    /\ storedPersonality' = EnsuredStore
    /\ outcome' = how

getPersonality ==
    /\ ProfileIssued
    /\ call' = [op |-> "getPersonality"]
    /\ ProfileKept("ok")
    /\ returned' = <<Ensured>>

\* Partials of updatePersonality: one names another id, two name one trait
\* only, one names one field of communication only.
ProfilePartials ==
    { [agent |-> [id |-> "intruder", name |-> "Eve"]],
      [traits |-> [empathy |-> Num(3)]],
      [traits |-> [empathy |-> Num(15)]],
      [communication |-> [tone |-> "dry"]],
      [values |-> <<"honesty", "honesty">>] }

\* A merge in which the partial's agent wins on every field.
MergedProfileAgentFromPartial(cur, updates) ==
    LET agentUpdates == IF "agent" \in DOMAIN updates THEN updates.agent
                        ELSE <<>>
    IN Spread(Spread(cur, updates),
              [agent |-> Spread(cur.agent, agentUpdates)])

\* `{...personality, ...updates, agent: {...personality.agent,
\*   ...updates.agent, id: personality.agent.id}}`
MergedProfile(cur, updates) ==
    LET agentUpdates == IF "agent" \in DOMAIN updates THEN updates.agent
                        ELSE <<>>
    IN Spread(Spread(cur, updates),
              [agent |-> Spread(Spread(cur.agent, agentUpdates),
                                [id |-> cur.agent.id])])

updatePersonality ==
    /\ ProfileIssued
    /\ \E updates \in ProfilePartials, ok \in SaveMayFail :
         /\ call' = [op |-> "updatePersonality", arg |-> updates]
         /\ ProfileSaved(MergedProfile(Ensured, updates), ok)
         /\ returned' = IF ok THEN <<MergedProfile(Ensured, updates)>>
                        ELSE <<>>

TraitNames == {"empathy", "patience"}

TraitValues == {Num(0), Num(3), Num(10), Num(11), Num(-1), NaN}

\* A check of the upper end only.
TraitAboveRange(value) == JsLess(Num(10), value)

\* `value < 0 || value > 1`
TraitOutOfRange(value) == JsLess(value, Num(0)) \/ JsLess(Num(10), value)

updateTrait ==
    /\ ProfileIssued
    /\ \E traitName \in TraitNames, value \in TraitValues, ok \in SaveMayFail :
         /\ call' = [op |-> "updateTrait", name |-> traitName, value |-> value]
         /\ IF TraitOutOfRange(value)
            THEN ProfileKept("error")
            ELSE ProfileSaved(
                     [Ensured EXCEPT !.traits =
                          Spread(@, [n \in {traitName} |-> value])], ok)
    /\ returned' = <<>>

ValueLabels == {"learning", "problem_solving", "honesty"}

\* A test that never finds the value.
NeverIncluded(list, value) == FALSE

\* `this.personality!.values.includes(value)`
ValueIncluded(list, value) == includes(list, value)

addValue ==
    /\ ProfileIssued
    /\ \E value \in ValueLabels, ok \in SaveMayFail :
         /\ call' = [op |-> "addValue", value |-> value]
         /\ IF ValueIncluded(Ensured.values, value)
            THEN ProfileKept("ok")
            ELSE ProfileSaved([Ensured EXCEPT !.values = Append(@, value)], ok)
    /\ returned' = <<>>

removeValue ==
    /\ ProfileIssued
    /\ \E value \in ValueLabels, ok \in SaveMayFail :
         /\ call' = [op |-> "removeValue", value |-> value]
         /\ ProfileSaved(
                [Ensured EXCEPT !.values = SelectSeq(@, LAMBDA v : v # value)],
                ok)
    /\ returned' = <<>>

StylePartials == { [tone |-> "dry"], [style |-> "formal", patterns |-> <<>>] }

updateCommunicationStyle ==
    /\ ProfileIssued
    /\ \E style \in StylePartials, ok \in SaveMayFail :
         /\ call' = [op |-> "updateCommunicationStyle", arg |-> style]
         /\ ProfileSaved(
                [Ensured EXCEPT !.communication = Spread(@, style)], ok)
    /\ returned' = <<>>

\* A manager whose constructor's initialize has run: it holds what the
\* provider held, or the default profile, and the provider holds the same.
InitProfile ==
    /\ \E stored \in InitialStores :
         /\ personality = LoadedOrDefault(stored)
         /\ storedPersonality = LoadedOrDefault(stored)
    /\ prePersonality = personality
    /\ heap = <<>>
    /\ managers = <<>>
    /\ memories = <<>>
    /\ persisted = <<>>
    /\ now = 0
    /\ calls = 0
    /\ pre = <<>>
    /\ call = [op |-> "none"]
    /\ outcome = "none"
    /\ saved = <<>>
    /\ emitted = <<>>
    /\ returned = <<>>
    /\ argAfter = <<>>
    /\ prompts = <<>>
    /\ inflight = <<>>
    /\ asked = <<>>
    /\ template = DEFAULT_TEMPLATE

NextProfile ==
    \/ getPersonality
    \/ updatePersonality
    \/ updateTrait
    \/ addValue
    \/ removeValue
    \/ updateCommunicationStyle

SpecProfile == InitProfile /\ [][NextProfile]_vars

\* Outcomes of the provider's loadPersonality and savePersonality.
LoadMayFail == BOOLEAN

\* The profile initialize leaves in this.personality (lines 75-82): what
\* was loaded or the default and, when the load or the save of it throws,
\* the default the catch assigns.
Initialized(stored, loadOk, saveOk) ==
    IF loadOk /\ saveOk THEN LoadedOrDefault(stored) ELSE DefaultProfile

\* initialize, as the constructor starts it (line 68).
initialize ==
    /\ personality = Absent
    /\ \E loadOk \in LoadMayFail, saveOk \in SaveMayFail :
         /\ call' = [op |-> "initialize", loadOk |-> loadOk,
                     saveOk |-> saveOk,
                     loaded |-> IF loadOk THEN storedPersonality ELSE Absent]
         /\ personality' = Initialized(storedPersonality, loadOk, saveOk)
         /\ saved' = IF loadOk THEN <<LoadedOrDefault(storedPersonality)>>
                     ELSE <<>>
         /\ storedPersonality' =
                IF loadOk /\ saveOk THEN LoadedOrDefault(storedPersonality)
                ELSE storedPersonality
    /\ outcome' = "ok"
    /\ returned' = <<>>
    /\ prePersonality' = personality
    /\ UNCHANGED <<memories, persisted, now, calls, pre, emitted, argAfter,
                   prompts, inflight, builderVars, heapVars>>

\* The manager as its constructor returns: no profile yet, and the provider
\* holding nothing or a stored profile.
InitConstructed ==
    /\ personality = Absent
    /\ storedPersonality \in InitialStores
    /\ prePersonality = Absent
    /\ heap = <<>>
    /\ managers = <<>>
    /\ memories = <<>>
    /\ persisted = <<>>
    /\ now = 0
    /\ calls = 0
    /\ pre = <<>>
    /\ call = [op |-> "none"]
    /\ outcome = "none"
    /\ saved = <<>>
    /\ emitted = <<>>
    /\ returned = <<>>
    /\ argAfter = <<>>
    /\ prompts = <<>>
    /\ inflight = <<>>
    /\ asked = <<>>
    /\ template = DEFAULT_TEMPLATE

\* The constructor's initialize, and then the calls on the manager.
NextConstructed ==
    \/ initialize
    \/ personality # Absent /\ NextProfile

SpecConstructed == InitConstructed /\ [][NextConstructed]_vars

----------------------------------------------------------------------------
\* PersonalityManager instances side by side (personalityManager.ts).
\*
\* Objects have an identity here.  `heap` holds the objects of the module by
\* address: a profile object holds the addresses of its agent, its traits,
\* its values array and its communication; these hold values.  The object
\* ARIA_FROST_PERSONALITY is at DefaultAt, and it is the object itself, not
\* a copy of it, that initialize assigns (line 77).  A manager holds the
\* address of its profile, and its provider holds what JSON.stringify made
\* of the profile it was last handed; `loaded` keeps what its provider
\* held when the manager was constructed.

MaxManagers == 2   \* number of PersonalityManager instances constructed

DefaultAt == 1

\* The objects a profile literal makes, the profile object last, in a heap
\* that has `size` objects.
Allocated(profile, size) ==
    << profile.agent, profile.traits, profile.values, profile.communication,
       [agent |-> size + 1, traits |-> size + 2, values |-> size + 3,
        communication |-> size + 4] >>

\* The module once it is loaded: ARIA_FROST_PERSONALITY alone.
ModuleHeap ==
    << [agent |-> 2, traits |-> 3, values |-> 4, communication |-> 5],
       DefaultProfile.agent, DefaultProfile.traits, DefaultProfile.values,
       DefaultProfile.communication >>

\* The profile as a reader of the object at `at` finds it.
ProfileAt(objects, at) ==
    [agent |-> objects[objects[at].agent],
     traits |-> objects[objects[at].traits],
     values |-> objects[objects[at].values],
     communication |-> objects[objects[at].communication]]

\* The profile getPersonality of the i-th manager returns.
ProfileOf(i) == ProfileAt(heap, managers[i].personality)

\* A call on the i-th manager is counted.
ManagerCalled(i, c) ==
    /\ calls < MaxCalls
    /\ calls' = calls + 1
    /\ call' = Spread(c, [on |-> i])
    /\ UNCHANGED <<memories, persisted, now, pre, emitted, argAfter, prompts,
                   inflight, builderVars, profileVars>>

\* savePersonality of the i-th manager, on the objects as the handler left
\* them: the provider keeps the text of the profile when its write succeeds.
ManagerSaved(i, objects, at, ok) ==
    /\ heap' = objects
    /\ managers' = [managers EXCEPT
                      ![i].personality = at,
                      ![i].stored = IF ok THEN ProfileAt(objects, at) ELSE @]
    /\ saved' = <<ProfileAt(objects, at)>>
    /\ outcome' = Settled(ok)

\* `new PersonalityManager(provider)` with a provider of its own, and the
\* initialize it starts, with a load and a save that succeed: a stored
\* profile is parsed into objects of its own, and without one the manager
\* holds ARIA_FROST_PERSONALITY itself.
constructed ==
    /\ Len(managers) < MaxManagers
    /\ \E stored \in InitialStores :
         LET fresh == stored # Absent
             objects == IF fresh
                        THEN heap \o Allocated(stored, Len(heap))
                        ELSE heap
             at == IF fresh THEN Len(objects) ELSE DefaultAt
         IN /\ heap' = objects
            /\ managers' = Append(managers,
                                  [personality |-> at, loaded |-> stored,
                                   stored |-> ProfileAt(objects, at)])
            /\ call' = [op |-> "constructor", on |-> Len(managers) + 1,
                        loaded |-> stored]
            /\ saved' = <<ProfileAt(objects, at)>>
    /\ outcome' = "ok"
    /\ returned' = <<>>
    /\ UNCHANGED <<memories, persisted, now, calls, pre, emitted, argAfter,
                   prompts, inflight, builderVars, profileVars>>

getPersonalityOf(i) ==
    /\ ManagerCalled(i, [op |-> "getPersonality"])
    /\ returned' = <<ProfileOf(i)>>
    /\ outcome' = "ok"
    /\ saved' = <<>>
    /\ UNCHANGED heapVars

\* Partials of updatePersonality: each object they name is the caller's.
SharedPartials ==
    { [agent |-> [name |-> "Eve"]],
      [traits |-> [empathy |-> Num(3)]] }

\* updatePersonality (lines 112-120): a new profile object and a new agent;
\* traits, values and communication are the partial's objects where it
\* names them and the objects the old profile had where it does not.
updatePersonalityOf(i) ==
    \E updates \in SharedPartials, ok \in SaveMayFail :
        LET old == heap[managers[i].personality]
            agentUpdates == IF "agent" \in DOMAIN updates THEN updates.agent
                            ELSE <<>>
            agent == Spread(Spread(heap[old.agent], agentUpdates),
                            [id |-> heap[old.agent].id])
            named == SelectSeq(<<"traits", "values", "communication">>,
                               LAMBDA f : f \in DOMAIN updates)
            given == [k \in 1..Len(named) |-> updates[named[k]]]
            agentAt == Len(heap) + 1
            GivenAt(f) == agentAt + CHOOSE k \in 1..Len(named) : named[k] = f
            profile == [f \in DOMAIN old |->
                            IF f = "agent" THEN agentAt
                            ELSE IF f \in DOMAIN updates THEN GivenAt(f)
                            ELSE old[f]]
            objects == Append(Append(heap, agent) \o given, profile)
        IN /\ ManagerCalled(i, [op |-> "updatePersonality", arg |-> updates])
           /\ ManagerSaved(i, objects, Len(objects), ok)
           /\ returned' = IF ok THEN <<ProfileAt(objects, Len(objects))>>
                          ELSE <<>>

\* updateTrait (lines 134-139): `traits[traitName] = value` writes into the
\* traits object the profile holds.
updateTraitOf(i) ==
    \E traitName \in TraitNames, value \in {Num(3), Num(11)},
       ok \in SaveMayFail :
        LET at == managers[i].personality
            objects == [heap EXCEPT ![heap[at].traits] =
                            Spread(@, [n \in {traitName} |-> value])]
        IN /\ ManagerCalled(i, [op |-> "updateTrait", name |-> traitName,
                                value |-> value])
           /\ IF TraitOutOfRange(value)
              THEN /\ outcome' = "error"
                   /\ saved' = <<>>
                   /\ UNCHANGED heapVars
              ELSE ManagerSaved(i, objects, at, ok)
           /\ returned' = <<>>

\* addValue (lines 150-153): `values.push(value)` grows the array the
\* profile holds.
addValueOf(i) ==
    \E value \in ValueLabels, ok \in SaveMayFail :
        LET at == managers[i].personality
            objects == [heap EXCEPT ![heap[at].values] = Append(@, value)]
        IN /\ ManagerCalled(i, [op |-> "addValue", value |-> value])
           /\ IF ValueIncluded(heap[heap[at].values], value)
              THEN /\ outcome' = "ok"
                   /\ saved' = <<>>
                   /\ UNCHANGED heapVars
              ELSE ManagerSaved(i, objects, at, ok)
           /\ returned' = <<>>

\* removeValue (line 164): filter makes a new array, and the assignment
\* writes its address into the profile object.
removeValueOf(i) ==
    \E value \in ValueLabels, ok \in SaveMayFail :
        LET at == managers[i].personality
            filtered == SelectSeq(heap[heap[at].values], LAMBDA v : v # value)
            objects == [Append(heap, filtered) EXCEPT
                          ![at].values = Len(heap) + 1]
        IN /\ ManagerCalled(i, [op |-> "removeValue", value |-> value])
           /\ ManagerSaved(i, objects, at, ok)
           /\ returned' = <<>>

\* updateCommunicationStyle (lines 176-180): the spread makes a new object,
\* and the assignment writes its address into the profile object.
updateCommunicationStyleOf(i) ==
    \E style \in StylePartials, ok \in SaveMayFail :
        LET at == managers[i].personality
            merged == Spread(heap[heap[at].communication], style)
            objects == [Append(heap, merged) EXCEPT
                          ![at].communication = Len(heap) + 1]
        IN /\ ManagerCalled(i, [op |-> "updateCommunicationStyle",
                                arg |-> style])
           /\ ManagerSaved(i, objects, at, ok)
           /\ returned' = <<>>

\* The module loaded and no manager constructed yet.
InitShared ==
    /\ heap = ModuleHeap
    /\ managers = <<>>
    /\ personality = Absent
    /\ storedPersonality = Absent
    /\ prePersonality = Absent
    /\ memories = <<>>
    /\ persisted = <<>>
    /\ now = 0
    /\ calls = 0
    /\ pre = <<>>
    /\ call = [op |-> "none"]
    /\ outcome = "none"
    /\ saved = <<>>
    /\ emitted = <<>>
    /\ returned = <<>>
    /\ argAfter = <<>>
    /\ prompts = <<>>
    /\ inflight = <<>>
    /\ asked = <<>>
    /\ template = DEFAULT_TEMPLATE

NextShared ==
    \/ constructed
    \/ \E i \in 1..Len(managers) :
         \/ getPersonalityOf(i)
         \/ updatePersonalityOf(i)
         \/ updateTraitOf(i)
         \/ addValueOf(i)
         \/ removeValueOf(i)
         \/ updateCommunicationStyleOf(i)

SpecShared == InitShared /\ [][NextShared]_vars

----------------------------------------------------------------------------
\* PromptBuilder (promptBuilder.ts, lines 39-146).  A text is the sequence
\* of its pieces, and a placeholder is found where it is a piece of its own.

\* Array.prototype.join
RECURSIVE Join(_, _)
Join(texts, separator) ==
    IF texts = <<>> THEN <<>>
    ELSE IF Len(texts) = 1 THEN texts[1]
    ELSE texts[1] \o separator \o Join(Tail(texts), separator)

\* `${n}` of a number held in tenths: 5 is "0.5", 10 is "1", -3 is "-0.3".
TenthsText(n) ==
    LET a == IF n < 0 THEN 0 - n ELSE n
    IN (IF n < 0 THEN <<"-">> ELSE <<>>)
       \o <<ToString(a \div 10)>>
       \o (IF a % 10 = 0 THEN <<>> ELSE <<".", ToString(a % 10)>>)

\* `${value}` of a trait value.
NumberText(value) ==
    IF value.t = "number" THEN TenthsText(value.v) ELSE <<value.t>>

\* The special patterns of a replacement string: `$&` stands for the
\* matched text and `$$` for one dollar sign.
RECURSIVE Expanded(_, _)
Expanded(replacement, matched) ==
    IF replacement = <<>> THEN <<>>
    ELSE (IF Head(replacement) = "$&" THEN <<matched>>
          ELSE IF Head(replacement) = "$$" THEN <<"$">>
          ELSE <<Head(replacement)>>)
         \o Expanded(Tail(replacement), matched)

\* String.prototype.replace with a string pattern: the first occurrence
\* only, and the text itself when there is none.
Replace(text, pattern, replacement) ==
    IF ~includes(text, pattern) THEN text
    ELSE LET at == CHOOSE i \in 1..Len(text) :
                       /\ text[i] = pattern
                       /\ \A j \in 1..(i - 1) : text[j] # pattern
         IN SubSeq(text, 1, at - 1)
            \o Expanded(replacement, pattern)
            \o SubSeq(text, at + 1, Len(text))

\* toLocaleDateString of a timestamp: a text fixed by the timestamp and the
\* locale.
LocaleDate(t) == <<"toLocaleDateString", ToString(t)>>

formatMemory(memory) ==
    <<"- ">> \o LocaleDate(memory.created_at) \o <<": ">> \o memory.text
    \o <<" (Importance: ">> \o TenthsText(memory.importance)
    \o <<", Emotional: ">> \o TenthsText(memory.emotion_score) \o <<")">>

\* `record?.field || 'undefined'`
OrUndefined(record, field) ==
    IF field \in DOMAIN record /\ record[field] # ""
    THEN <<record[field]>> ELSE <<"undefined">>

\* Object.entries lists the traits in the order they were written.
TraitOrder == <<"empathy", "humor", "curiosity", "patience">>

TraitLines(traits) ==
    LET named == SelectSeq(TraitOrder, LAMBDA name : name \in DOMAIN traits)
    IN Join([i \in 1..Len(named) |->
                 <<"- ", named[i], ": ">> \o NumberText(traits[named[i]])],
            <<"\n">>)

\* formatPersonality (lines 65-89).  It throws on a communication that has
\* no patterns, the only field it reads without a test.
formatPersonality(profile) ==
    LET agent == IF "agent" \in DOMAIN profile THEN profile.agent ELSE <<>>
        traits == IF "traits" \in DOMAIN profile
                  THEN TraitLines(profile.traits)
                  ELSE <<"No traits defined">>
        values == IF "values" \in DOMAIN profile /\ Len(profile.values) > 0
                  THEN Join([i \in 1..Len(profile.values) |->
                                 <<profile.values[i]>>], <<", ">>)
                  ELSE <<"No values defined">>
        patterns == Join([i \in 1..Len(profile.communication.patterns) |->
                              <<profile.communication.patterns[i]>>],
                         <<", ">>)
        communication ==
            IF "communication" \in DOMAIN profile
            THEN <<"- Style: ">> \o OrUndefined(profile.communication, "style")
                 \o <<"\n    - Tone: ">>
                 \o OrUndefined(profile.communication, "tone")
                 \o <<"\n    - Patterns: ">>
                 \o (IF patterns = <<>> THEN <<"undefined">> ELSE patterns)
            ELSE <<"- Style: undefined\n- Tone: undefined\n- Patterns: undefined">>
    IN IF /\ "communication" \in DOMAIN profile
          /\ "patterns" \notin DOMAIN profile.communication
       THEN Thrown
       ELSE Returned(<<"Name: ">> \o OrUndefined(agent, "name")
                     \o <<"\n    Description: ">>
                     \o OrUndefined(agent, "description")
                     \o <<"\n    Traits:\n    ">> \o traits
                     \o <<"\n    Values: ">> \o values
                     \o <<"\n    Communication:\n    ">> \o communication)

\* The default of the third parameter of buildPrompt.
DefaultParams == [limit |-> 5, importance_threshold |-> 5]

\* A profile a caller built by hand, with a communication without patterns.
PatternlessProfile ==
    [agent |-> [id |-> "agent_7", name |-> ""],
     traits |-> [empathy |-> NaN],
     values |-> <<>>,
     communication |-> [style |-> "terse"]]

\* A profile with nothing but its agent.
BareProfile == [agent |-> [id |-> "agent_8", name |-> "Bare"]]

\* The arguments of buildPrompt: the message, the conversation context and
\* the criteria, each omitted, plain, or made of the pieces the builder
\* itself gives a meaning to.
UserMessages == { <<>>, <<"hello">>, <<ContextSlot, "$&">> }

Contexts == { <<>>, <<"earlier talk">>, <<"$&", PersonalitySlot>> }

PromptParams ==
    { Absent,
      [query |-> <<"a">>],
      [limit |-> 1, personality |-> StoredProfile],
      [personality |-> PatternlessProfile],
      [personality |-> BareProfile] }

\* What the two providers answer: they reject, or they resolve.
SearchAnswers ==
    { Thrown, Returned(<<>>), Returned(<<LoadedRecord(1)>>),
      Returned(TwoLoaded) }

ProfileAnswers ==
    { Thrown, Returned(DefaultProfile), Returned(PatternlessProfile) }

\* A builder that asks its personality provider whatever the criteria hold.
RetrievalsAlways(memoryParams) == << [op |-> "getPersonality"] >>

\* `memoryParams.personality ? Promise.resolve(memoryParams.personality)
\*   : this.personalityProvider.getPersonality()` (lines 102-104): the
\* calls made on the personality provider.
Retrievals(memoryParams) ==
    IF "personality" \in DOMAIN memoryParams
    THEN <<>> ELSE << [op |-> "getPersonality"] >>

\* Lines 107-134, once both promises of line 100 have fulfilled.
PromptOf(tpl, userMessage, context, relevantMemories, profile) ==
    LET formatted == formatPersonality(profile)
        systemMessage ==
            Replace(Replace(tpl.system, PersonalitySlot, formatted.value),
                    ContextSlot, context)
        memoriesText ==
            IF Len(relevantMemories) > 0
            THEN tpl.memory_prefix \o <<"\n">>
                 \o Join([i \in 1..Len(relevantMemories) |->
                              formatMemory(relevantMemories[i])], <<"\n">>)
                 \o tpl.memory_suffix
            ELSE <<>>
        personalityText ==
            tpl.personality_prefix \o <<"\n">> \o formatted.value
            \o tpl.personality_suffix
        contextMessage ==
            Replace(tpl.context, ContextSlot, context)
            \o memoriesText \o personalityText
    IN IF formatted.threw THEN Thrown
       ELSE Returned(<<systemMessage, contextMessage, userMessage>>)

\* Every call on the builder is counted.
BuilderIssued ==
    /\ calls < MaxCalls
    /\ calls' = calls + 1
    /\ UNCHANGED <<memories, persisted, now, pre, saved, emitted, argAfter,
                   prompts, inflight, profileVars, heapVars>>

buildPrompt ==
    /\ BuilderIssued
    /\ \E userMessage \in UserMessages, context \in Contexts,
          params \in PromptParams,
          found \in SearchAnswers, answer \in ProfileAnswers :
         LET memoryParams == IF params = Absent THEN DefaultParams ELSE params
             retrievals == Retrievals(memoryParams)
             profile == IF "personality" \in DOMAIN memoryParams
                        THEN Returned(memoryParams.personality)
                        ELSE answer
             settled == IF found.threw \/ profile.threw THEN Thrown
                        ELSE PromptOf(template, userMessage, context,
                                      found.value, profile.value)
         IN /\ call' = [op |-> "buildPrompt", userMessage |-> userMessage,
                        context |-> context, params |-> params,
                        found |-> found, profile |-> profile]
            /\ asked' = << [op |-> "searchMemories",
                            params |-> memoryParams] >> \o retrievals
            /\ returned' = ValueOf(settled)
            /\ outcome' = OutcomeOf(settled)
    /\ UNCHANGED template

\* Partial templates a caller hands to setTemplate.
TemplatePartials ==
    { [system |-> <<"Be brief. ", ContextSlot, PersonalitySlot>>],
      [context |-> <<ContextSlot, " / ", ContextSlot>>,
       memory_prefix |-> <<"MEMORIES:">>] }

\* setTemplate (lines 140-145)
setTemplate ==
    /\ BuilderIssued
    /\ \E partial \in TemplatePartials :
         /\ call' = [op |-> "setTemplate", arg |-> partial]
         /\ template' = Spread(template, partial)
    /\ asked' = <<>>
    /\ returned' = <<>>
    /\ outcome' = "ok"

InitPrompt ==
    /\ template = DEFAULT_TEMPLATE
    /\ asked = <<>>
    /\ memories = <<>>
    /\ persisted = <<>>
    /\ now = 0
    /\ calls = 0
    /\ pre = <<>>
    /\ call = [op |-> "none"]
    /\ outcome = "none"
    /\ saved = <<>>
    /\ emitted = <<>>
    /\ returned = <<>>
    /\ argAfter = <<>>
    /\ prompts = <<>>
    /\ inflight = <<>>
    /\ personality = Absent
    /\ storedPersonality = Absent
    /\ prePersonality = Absent
    /\ heap = <<>>
    /\ managers = <<>>

NextPrompt ==
    \/ buildPrompt
    \/ setTemplate

SpecPrompt == InitPrompt /\ [][NextPrompt]_vars

----------------------------------------------------------------------------
\* MemoryManager with calls in flight (promptBuilder.ts 245-391).
\*
\* A handler runs up to its `await this.saveMemories()` when it is called:
\* it changes the Map and hands Array.from(this.memories.values()) to the
\* provider.  It goes on, to its emit and its return, when the provider's
\* write completes, and the provider completes its writes in any order.
\* The constructor's load is in flight in the same way.  `inflight` holds
\* the load first and then the calls in the order they were made; a
\* snapshot is taken as the provider was handed it.

\* LocalStorageProvider.saveMemories keeps the longer of what it holds
\* and what it is handed.
OverwrittenUnlessShorter(held, snapshot) ==
    IF Len(held) > Len(snapshot) THEN held ELSE snapshot

\* LocalStorageProvider.saveMemories (lines 236-238): setItem
\* replaces what the provider holds.
Overwritten(held, snapshot) == snapshot

\* The number of loads and writes that have completed; each is numbered in
\* `at` as it completes, and the load notes the calls made before it.
CompletedCount(slots) ==
    Cardinality({ i \in 1..Len(slots) : "at" \in DOMAIN slots[i] })

\* The constructor has called initialize, which awaits loadMemories.
LoadIssued == [call |-> [op |-> "load"], state |-> "issued"]

\* The provider reads what it holds for the pending load.
loadReads ==
    /\ inflight[1].state = "issued"
    /\ inflight' = [inflight EXCEPT
                      ![1] = [call |-> [op |-> "load"], state |-> "read",
                              snapshot |-> persisted]]
    /\ UNCHANGED <<memories, persisted, now, calls, pre, call, outcome, saved,
                   emitted, returned, argAfter, prompts, builderVars,
                   profileVars, heapVars>>

\* initialize goes on after its await (lines 257-258): clear, then set each.
loadCompletes ==
    /\ inflight[1].state = "read"
    /\ memories' = inflight[1].snapshot
    /\ inflight' = [inflight EXCEPT
                      ![1] = [call |-> [op |-> "load"], state |-> "done",
                              snapshot |-> inflight[1].snapshot,
                              at |-> CompletedCount(inflight) + 1,
                              callsBefore |-> calls]]
    /\ UNCHANGED <<persisted, now, calls, pre, call, outcome, saved, emitted,
                   returned, argAfter, prompts, builderVars, profileVars, heapVars>>

\* loadMemories rejects: initialize rethrows and the constructor logs it
\* (lines 259-262, 248); the Map stays as it is.
loadFails ==
    /\ inflight[1].state = "issued"
    /\ inflight' = [inflight EXCEPT
                      ![1] = [call |-> [op |-> "load"], state |-> "failed",
                              snapshot |-> <<>>,
                              at |-> CompletedCount(inflight) + 1,
                              callsBefore |-> calls]]
    /\ UNCHANGED <<memories, persisted, now, calls, pre, call, outcome, saved,
                   emitted, returned, argAfter, prompts, builderVars,
                   profileVars, heapVars>>

\* A call is made: it is counted, and it leaves in pre the collection it
\* found.
Called(c) ==
    /\ calls < MaxCalls
    /\ calls' = calls + 1
    /\ pre' = memories
    /\ call' = c
    /\ UNCHANGED <<persisted, now, emitted, returned, argAfter, prompts,
                   builderVars, profileVars, heapVars>>

\* The handler has changed the Map to mems and awaits the write of it;
\* event and value are what it will emit and return.
Awaiting(c, mems, event, value) ==
    /\ memories' = mems
    /\ saved' = Append(saved, mems)
    /\ outcome' = "pending"
    /\ inflight' = Append(inflight,
                          [call |-> c, state |-> "saving", snapshot |-> mems,
                           event |-> event, value |-> value])

\* The handler throws before it changes anything.
ThrownAtOnce(c) ==
    /\ memories' = memories
    /\ saved' = saved
    /\ outcome' = "notfound"
    /\ inflight' = Append(inflight, [call |-> c, state |-> "rejected"])

createMemoryCalled ==
    \E draft \in SaveDrafts, r \in 1..MaxRand, g \in GlimpseIds :
        LET c == [op |-> "createMemory", arg |-> draft]
            newMemory == NewMemory(draft, MemoryId(now, r), g, now,
                                   NextOrd(memories))
        IN /\ Called(c)
           /\ Awaiting(c, MapSet(memories, newMemory),
                       [type |-> "create", memory |-> newMemory],
                       <<newMemory>>)

updateMemoryCalled ==
    \E id \in ArgIds(memories), updates \in GraphPartials(memories) :
        LET c == [op |-> "updateMemory", id |-> id, arg |-> updates]
        IN /\ Called(c)
           /\ IF ~MapHas(memories, id)
              THEN ThrownAtOnce(c)
              ELSE LET updatedMemory ==
                           UpdatedMemory(MapGet(memories, id), id, updates)
                   IN Awaiting(c, MapSet(memories, updatedMemory),
                               [type |-> "update", memory |-> updatedMemory],
                               <<updatedMemory>>)

deleteMemoryCalled ==
    \E id \in ArgIds(memories) :
        LET c == [op |-> "deleteMemory", id |-> id]
        IN /\ Called(c)
           /\ IF ~MapHas(memories, id)
              THEN ThrownAtOnce(c)
              ELSE Awaiting(c, DeleteCascade(memories, id),
                            [type |-> "delete",
                             memory |-> MapGet(memories, id)],
                            <<>>)

linkMemoriesCalled ==
    \E sourceId \in ArgIds(memories), targetId \in ArgIds(memories) :
        LET c == [op |-> "linkMemories", id |-> sourceId, target |-> targetId]
        IN /\ Called(c)
           /\ IF ~MapHas(memories, sourceId) \/ ~MapHas(memories, targetId)
              THEN ThrownAtOnce(c)
              ELSE LET mems == LinkBoth(memories, sourceId, targetId)
                   IN Awaiting(c, mems,
                               [type |-> "link",
                                memory |-> MapGet(mems, sourceId),
                                linked_to |-> <<targetId>>],
                               <<>>)

\* The provider completes one of the pending writes, and the handler that
\* awaited it emits and returns.
saveCompletes ==
    \E i \in 2..Len(inflight) :
        /\ inflight[i].state = "saving"
        /\ persisted' = Overwritten(persisted, inflight[i].snapshot)
        /\ inflight' = [inflight EXCEPT
                          ![i] = Spread(@, [state |-> "resolved",
                                            at |-> CompletedCount(inflight)
                                                       + 1])]
        /\ emitted' = Append(emitted, inflight[i].event)
        /\ returned' = inflight[i].value
        /\ outcome' = "ok"
        /\ UNCHANGED <<memories, now, calls, pre, call, saved, argAfter,
                       prompts, builderVars, profileVars, heapVars>>

\* The manager as its constructor returns, in a later millisecond than the
\* one the records of the snapshot were made in: the Map empty, the load
\* pending.
InitRace ==
    /\ memories = <<>>
    /\ persisted \in LoadedSnapshots
    /\ inflight = <<LoadIssued>>
    /\ now = MaxClock
    /\ calls = 0
    /\ pre = <<>>
    /\ call = [op |-> "none"]
    /\ outcome = "none"
    /\ saved = <<>>
    /\ emitted = <<>>
    /\ returned = <<>>
    /\ argAfter = <<>>
    /\ prompts = <<>>
    /\ asked = <<>>
    /\ template = DEFAULT_TEMPLATE
    /\ personality = Absent
    /\ storedPersonality = Absent
    /\ prePersonality = Absent
    /\ heap = <<>>
    /\ managers = <<>>

NextRace ==
    \/ loadReads
    \/ loadCompletes
    \/ loadFails
    \/ createMemoryCalled
    \/ updateMemoryCalled
    \/ deleteMemoryCalled
    \/ linkMemoriesCalled
    \/ saveCompletes

SpecRace == InitRace /\ [][NextRace]_vars

----------------------------------------------------------------------------
\* Vocabulary of the properties

Links(mems, id) == MapGet(mems, id).linked_memories

Linked(mems, a, b) == MapHas(mems, a) /\ includes(Links(mems, a), b)

LinkedBothWays(mems, a, b) == Linked(mems, a, b) /\ Linked(mems, b, a)

Occurrences(list, x) == Cardinality({ i \in 1..Len(list) : list[i] = x })

RECURSIVE Without(_, _)
Without(list, x) ==
    IF list = <<>> THEN <<>>
    ELSE IF Head(list) = x THEN Without(Tail(list), x)
    ELSE <<Head(list)>> \o Without(Tail(list), x)

Did(op, how) == call.op = op /\ outcome = how

FrozenFields == {"id", "created_at", "glimpse_id"}

----------------------------------------------------------------------------
\* Link integrity of the store (checked under Spec)

\* C1: in every reachable state the link relation is symmetric: for stored
\* A and B, B.id is in A.linked_memories iff A.id is in B.linked_memories.
C1_LinkRelationSymmetric ==
    \A i, j \in 1..Len(memories) :
        includes(memories[i].linked_memories, memories[j].id)
            <=> includes(memories[j].linked_memories, memories[i].id)

\* C2: after a linkMemories(a, b) that resolves, b is in a.linked_memories
\* and a is in b.linked_memories, in the collection and in the snapshot the
\* call passed to saveMemories; the call writes exactly that one snapshot.
C2_LinkSetsBothDirections ==
    Did("linkMemories", "ok") =>
        /\ LinkedBothWays(memories, call.id, call.target)
        /\ Len(saved) = 1
        /\ \A k \in 1..Len(saved) :
               LinkedBothWays(saved[k], call.id, call.target)
        /\ persisted = saved[1]

C2_Witness ==
    /\ Did("linkMemories", "ok")
    /\ call.id # call.target
    /\ ~Linked(pre, call.id, call.target)
    /\ ~Linked(pre, call.target, call.id)
    /\ LinkedBothWays(persisted, call.id, call.target)

\* C3: linkMemories is idempotent.  A linkMemories(a, b) issued when a and b
\* are already linked both ways (a repeated call, or the call with the
\* arguments swapped) leaves every link list as it was; and no linkMemories
\* call makes an id occur more often in a list than once or than before.
C3_LinkIdempotent ==
    Did("linkMemories", "ok") =>
        /\ LinkedBothWays(pre, call.id, call.target) =>
               /\ Len(memories) = Len(pre)
               /\ \A i \in 1..Len(pre) :
                      /\ memories[i].id = pre[i].id
                      /\ memories[i].linked_memories = pre[i].linked_memories
        /\ \A i \in 1..Len(memories) : \A x \in StoredIds(memories) :
               LET before == Occurrences(pre[i].linked_memories, x)
                   after == Occurrences(memories[i].linked_memories, x)
               IN after <= (IF before = 0 THEN 1 ELSE before)

C3_Witness ==
    /\ Did("linkMemories", "ok")
    /\ call.id # call.target
    /\ LinkedBothWays(pre, call.id, call.target)
    /\ Occurrences(Links(memories, call.id), call.target) = 1
    /\ Occurrences(Links(memories, call.target), call.id) = 1

\* C4: after a deleteMemory(a) that resolves, a is not stored and a's id is
\* in no surviving link list, in the collection and in the saved snapshot;
\* the survivors keep their order and their link lists but for a's id.
C4_DeleteCascades ==
    Did("deleteMemory", "ok") =>
        /\ ~MapHas(memories, call.id)
        /\ \A i \in 1..Len(memories) :
               ~includes(memories[i].linked_memories, call.id)
        /\ saved = <<memories>>
        /\ persisted = memories
        /\ Len(memories) = Len(pre) - 1
        /\ \A i \in 1..Len(memories) :
               LET old == pre[IF i < IndexOf(pre, call.id) THEN i ELSE i + 1]
               IN /\ memories[i].id = old.id
                  /\ memories[i].linked_memories =
                         Without(old.linked_memories, call.id)

C4_Witness ==
    /\ Did("deleteMemory", "ok")
    /\ \E i \in 1..Len(memories) :
           /\ Linked(pre, memories[i].id, call.id)
           /\ memories[i].linked_memories # <<>>

\* C6: updateMemory or deleteMemory with an id that is not stored, and
\* linkMemories with either id not stored, reject as not found; the
\* collection, the persisted snapshot and the events stay as they were:
\* no save is issued and no event is emitted.
C6_NotFoundChangesNothing ==
    /\ [](/\ (call.op \in {"updateMemory", "deleteMemory"}
                 /\ ~MapHas(pre, call.id)) => outcome = "notfound"
          /\ (call.op = "linkMemories"
                 /\ (~MapHas(pre, call.id) \/ ~MapHas(pre, call.target)))
               => outcome = "notfound"
          /\ outcome = "notfound" =>
                 /\ memories = pre
                 /\ saved = <<>>
                 /\ emitted = <<>>)
    /\ [][outcome' = "notfound" /\ calls' # calls =>
              memories' = memories /\ persisted' = persisted]_vars

C6_Witness ==
    /\ Did("linkMemories", "notfound")
    /\ MapHas(memories, call.id)
    /\ ~MapHas(memories, call.target)
    /\ Links(memories, call.id) # <<>>
    /\ persisted = memories

----------------------------------------------------------------------------
\* Fields and search of the store (checked under SpecFields and SpecSearch)

\* C5: after updateMemory(id, partial) on a stored id, the record has the
\* id, created_at and glimpse_id it had before, whatever partial says, and
\* sits under the same key in the same place; every other field partial
\* names has partial's value and every field it does not name is unchanged.
C5_UpdateKeepsFrozenFields ==
    Did("updateMemory", "ok") =>
        /\ MapHas(memories, call.id)
        /\ IndexOf(memories, call.id) = IndexOf(pre, call.id)
        /\ Len(memories) = Len(pre)
        /\ LET old == MapGet(pre, call.id)
               new == MapGet(memories, call.id)
           IN /\ \A f \in FrozenFields : new[f] = old[f]
              /\ DOMAIN new = (DOMAIN old) \cup (DOMAIN call.arg)
              /\ \A f \in (DOMAIN call.arg) \ FrozenFields :
                     new[f] = call.arg[f]
              /\ \A f \in (DOMAIN old) \ (DOMAIN call.arg) : new[f] = old[f]

C5_Witness ==
    /\ Did("updateMemory", "ok")
    /\ FrozenFields \subseteq DOMAIN call.arg
    /\ call.arg.id # call.id
    /\ call.arg.created_at # MapGet(memories, call.id).created_at
    /\ call.arg.glimpse_id # MapGet(memories, call.id).glimpse_id
    /\ call.arg.importance # MapGet(pre, call.id).importance
    /\ MapGet(memories, call.id).importance = call.arg.importance

\* C7: searchMemories({importance_threshold: t, limit: n}) returns at most
\* n memories, all stored and of importance >= t, in non-increasing order
\* of importance, and the n most important ones when more than n qualify;
\* for every limit n >= 0.
C7_SearchThresholdAndLimit ==
    (call.op = "searchMemories"
        /\ DOMAIN call.arg = {"importance_threshold", "limit"}) =>
        LET t == call.arg.importance_threshold
            n == call.arg.limit
            qualifying == { i \in 1..Len(pre) : pre[i].importance >= t }
        IN /\ Len(returned) <= n
           /\ \A k \in 1..Len(returned) :
                  /\ \E i \in qualifying : pre[i] = returned[k]
                  /\ k > 1 => returned[k - 1].importance >= returned[k].importance
           /\ Cardinality(qualifying) > n =>
                  /\ Len(returned) = n
                  /\ \A i \in qualifying :
                         \/ \E k \in 1..Len(returned) : returned[k] = pre[i]
                         \/ \A k \in 1..Len(returned) :
                                returned[k].importance >= pre[i].importance

\* C8: searchMemories breaks ties by insertion order: of two results of
\* equal importance the one created earlier comes first, also after
\* updateMemory calls; with limit 1 the result is the earliest created of
\* the most important qualifying memories.
C8_TiesByCreationOrder ==
    (call.op = "searchMemories" /\ "memories" \notin DOMAIN call.arg) =>
        /\ \A j \in 1..Len(returned) : \A i \in 1..(j - 1) :
               returned[i].importance = returned[j].importance
                   => returned[i].ord < returned[j].ord
        /\ ("limit" \in DOMAIN call.arg /\ call.arg.limit = 1
               /\ Len(returned) = 1) =>
               \A i \in 1..Len(memories) :
                   memories[i].importance = returned[1].importance
                       => returned[1].ord <= memories[i].ord

\* C9: searchMemories is pure: the collection (contents and order), the
\* persisted snapshot, the events and a supplied criteria.memories
\* sequence (contents and order) are after the call what they were before.
C9_SearchIsPure ==
    /\ [](call.op = "searchMemories" =>
              /\ memories = pre
              /\ saved = <<>>
              /\ emitted = <<>>
              /\ "memories" \in DOMAIN call.arg =>
                     argAfter = call.arg.memories)
    /\ [][call'.op = "searchMemories" /\ calls' # calls =>
              memories' = memories /\ persisted' = persisted]_vars

----------------------------------------------------------------------------
\* The classification normalizer (checked under SpecClassify)

\* C10: when the completion text does not parse as JSON, or parses to null
\* (a value whose fields cannot be read), classifyMemory returns exactly
\* the default record: observation empty, importance 0.5, emotion_score 0,
\* focus_area and interaction_type "general", suggested_links empty.
C10_UnparseableGivesDefault ==
    (call.op = "classifyMemory" /\ call.completion.kind = "text"
        /\ call.completion.text \in MalformedTexts \cup {NullText}) =>
        returned = <<[observation |-> Str(""),
                      importance |-> Num(5),
                      emotion_score |-> Num(0),
                      focus_area |-> Str("general"),
                      interaction_type |-> Str("general"),
                      suggested_links |-> Arr(<<>>)]>>

C10_Witness ==
    /\ call.op = "classifyMemory"
    /\ call.completion.kind = "text"
    /\ call.completion.text =
           <<Junk, Punct("{"), Punct("}"), Junk>>
    /\ returned[1].observation = Str("")
    /\ DOMAIN returned[1] =
           {"observation", "importance", "emotion_score", "focus_area",
            "interaction_type", "suggested_links"}

\* The parsed value of a completion text, when the call saw one.
ParsedObject ==
    /\ call.op = "classifyMemory"
    /\ call.completion.kind = "text"
    /\ JSONparse(call.completion.text).ok
    /\ JSONparse(call.completion.text).value.t = "object"

ResultField(name) == Field(JSONparse(call.completion.text).value, name)

InRange(x, lo, hi) == x.t = "number" /\ lo <= x.v /\ x.v <= hi

\* C11: for a completion that parses as a JSON object, whatever its
\* importance and emotion_score hold, the returned importance is in [0,1]
\* and the returned emotion_score in [-1,1]; a number x that is not zero
\* gives min(max(x, lo), hi), and an absent or zero field gives 0.5 for
\* importance and 0 for emotion_score.
C11_ScoresClamped ==
    ParsedObject =>
        /\ InRange(returned[1].importance, 0, 10)
        /\ InRange(returned[1].emotion_score, -10, 10)
        /\ LET x == ResultField("importance")
           IN /\ (x.t = "number" /\ x.v # 0) =>
                     returned[1].importance = Num(Min(Max(x.v, 0), 10))
              /\ (x = Undefined \/ x = Num(0)) =>
                     returned[1].importance = Num(5)
        /\ LET y == ResultField("emotion_score")
           IN /\ (y.t = "number" /\ y.v # 0) =>
                     returned[1].emotion_score = Num(Min(Max(y.v, -10), 10))
              /\ (y = Undefined \/ y = Num(0)) =>
                     returned[1].emotion_score = Num(0)

ClassificationFields ==
    {"observation", "importance", "emotion_score", "focus_area",
     "interaction_type", "suggested_links"}

\* C12: classifyMemory never rejects: whatever the text and however the
\* completion settles (any text, or a failure), the call resolves with a
\* classification record, and it has called generateCompletion exactly
\* once.
C12_ClassifyNeverRejects ==
    call.op = "classifyMemory" =>
        /\ outcome = "ok"
        /\ Len(returned) = 1
        /\ ClassificationFields \subseteq DOMAIN returned[1]
        /\ Len(prompts) = 1

C12_Witness ==
    /\ call.op = "classifyMemory"
    /\ call.completion.kind = "rejects"
    /\ outcome = "ok"
    /\ returned = <<getDefaultClassification>>
    /\ Len(prompts) = 1

\* C13: analyzeSimilarity always resolves with a number in [0,1]: a numeric
\* response x gives min(max(x, 0), 1), and a failed completion call or a
\* response that is no number gives exactly 0.
C13_SimilarityInRange ==
    call.op = "analyzeSimilarity" =>
        /\ outcome = "ok"
        /\ Len(returned) = 1
        /\ InRange(returned[1], 0, 10)
        /\ call.completion.kind = "rejects" => returned[1] = Num(0)
        /\ (call.completion.kind = "text"
               /\ call.completion.text \in NonNumericResponses) =>
               returned[1] = Num(0)
        /\ (call.completion.kind = "text"
               /\ call.completion.text \in NumericResponses) =>
               returned[1] =
                   Num(Min(Max(parseFloat(call.completion.text).v, 0), 10))

\* The record a classifyMemory call of the batch owes to its completion.
OwedTo(record, completion) ==
    CASE completion.kind = "rejects" -> record = getDefaultClassification
      [] completion.text = <<Junk>> -> record = getDefaultClassification
      [] completion.text = ScoredText ->
            /\ record.importance = Num(7)
            /\ record.observation = Str("User and AI engaged in conversation.")
      [] completion.text = ObservedText ->
            /\ record.importance = Num(5)
            /\ record.observation = Str("calm talk")

\* C14: classifyBatch(texts) resolves, once every completion has settled
\* and not before, with as many records as there are texts, the i-th being
\* the classification of what the i-th text's completion gave, whatever the
\* order in which the completions settled; a failed or unparseable
\* completion gives the default record at its position and leaves the other
\* positions alone.  The i-th prompt is the one of the i-th text.
C14_BatchKeepsPositions ==
    call.op = "classifyBatch" =>
        /\ Len(prompts) = Len(call.texts)
        /\ \A i \in 1..Len(call.texts) :
               prompts[i] = ClassifyPrompt(call.texts[i], "")
        /\ Len(inflight) = Len(call.texts)
        /\ IF \E i \in 1..Len(inflight) : inflight[i].state = "pending"
           THEN outcome = "pending" /\ returned = <<>>
           ELSE /\ outcome = "ok"
                /\ Len(returned) = 1
                /\ Len(returned[1]) = Len(call.texts)
                /\ \A i \in 1..Len(call.texts) :
                       OwedTo(returned[1][i], inflight[i].completion)

C14_Witness ==
    /\ call.op = "classifyBatch"
    /\ Len(call.texts) = 2
    /\ outcome = "ok"
    /\ inflight[1].at = 2
    /\ inflight[2].at = 1
    /\ inflight[1].completion.kind = "rejects"
    /\ inflight[2].completion = [kind |-> "text", text |-> ScoredText]
    /\ returned[1][1] = getDefaultClassification
    /\ returned[1][2].importance = Num(7)

----------------------------------------------------------------------------
\* The personality profile (checked under SpecProfile)

\* A number that lies below 0 or above 1.
OutsideUnit(value) == value.t = "number" /\ (value.v < 0 \/ value.v > 10)

C16_TraitsInUnit ==
    personality.agent.id = DefaultProfile.agent.id =>
        \A n \in DOMAIN personality.traits :
            InRange(personality.traits[n], 0, 10)

\* C17: once the manager is initialized, agent.id of its profile never
\* changes, whatever the call, updatePersonality with a partial that names
\* another agent.id included.
C17_AgentIdNeverChanges ==
    [][personality'.agent.id = personality.agent.id]_vars

C17_Witness ==
    /\ call.op = "updatePersonality"
    /\ outcome = "ok"
    /\ "agent" \in DOMAIN call.arg
    /\ call.arg.agent.id # prePersonality.agent.id
    /\ personality.agent.id = prePersonality.agent.id
    /\ personality.agent.name = call.arg.agent.name
    /\ personality.agent.name # prePersonality.agent.name

\* The entries of a nested record of the profile that the partial does not
\* name are after the call what they were before.
KeepsUnnamed(part) ==
    \A n \in DOMAIN prePersonality[part] :
        (part \notin DOMAIN call.arg \/ n \notin DOMAIN call.arg[part]) =>
            /\ n \in DOMAIN personality[part]
            /\ personality[part][n] = prePersonality[part][n]

\* C18: updatePersonality(partial) deep-merges: every nested entry that the
\* partial does not name keeps its value, so a partial whose traits name
\* one trait, or whose communication names one field, leaves the other
\* traits and the other communication fields as they were.
C18_UpdateDeepMerges ==
    call.op = "updatePersonality" =>
        /\ KeepsUnnamed("agent")
        /\ KeepsUnnamed("traits")
        /\ KeepsUnnamed("communication")
        /\ "values" \notin DOMAIN call.arg =>
               personality.values = prePersonality.values

NoDuplicates(list) ==
    \A i, j \in 1..Len(list) : i # j => list[i] # list[j]

\* C19: the value list is a set under addValue and removeValue: neither
\* makes a duplicate-free list have duplicates; addValue(v) puts v at the
\* end of a list that lacks it and leaves a list that has it as it is, so
\* adding twice gives what adding once gives; after removeValue(v) the list
\* is the list before without v, the others in their order.
C19_ValuesBehaveAsSet ==
    /\ call.op = "addValue" =>
           /\ NoDuplicates(prePersonality.values) =>
                  NoDuplicates(personality.values)
           /\ personality.values =
                  IF includes(prePersonality.values, call.value)
                  THEN prePersonality.values
                  ELSE Append(prePersonality.values, call.value)
    /\ call.op = "removeValue" =>
           /\ NoDuplicates(prePersonality.values) =>
                  NoDuplicates(personality.values)
           /\ ~includes(personality.values, call.value)
           /\ personality.values = Without(prePersonality.values, call.value)

C19_Witness ==
    /\ call.op = "addValue"
    /\ call.value = "honesty"
    /\ personality.agent.id = DefaultProfile.agent.id
    /\ prePersonality.values = Append(DefaultProfile.values, "honesty")
    /\ personality.values = prePersonality.values
    /\ saved = <<>>

----------------------------------------------------------------------------
\* The prompt (checked under SpecPrompt)

\* The calls of one kind among the calls made on the providers.
AskedFor(op) == SelectSeq(asked, LAMBDA made : made.op = op)

\* The pieces of a template text that come before its first placeholder.
RECURSIVE LiteralPrefix(_)
LiteralPrefix(text) ==
    IF text = <<>> \/ Head(text) \in {PersonalitySlot, ContextSlot}
    THEN <<>>
    ELSE <<Head(text)>> \o LiteralPrefix(Tail(text))

StartsWith(text, prefix) ==
    /\ Len(prefix) <= Len(text)
    /\ SubSeq(text, 1, Len(prefix)) = prefix

\* C20: a buildPrompt that resolves returns three elements, the first made
\* from the system template, the second from the context template, the
\* third the userMessage it was given; and every buildPrompt asks the
\* memory provider once and the personality provider once, or not at all
\* when the criteria carry a personality.
C20_PromptShape ==
    call.op = "buildPrompt" =>
        /\ Len(AskedFor("searchMemories")) = 1
        /\ Len(AskedFor("getPersonality")) =
               IF call.params # Absent /\ "personality" \in DOMAIN call.params
               THEN 0 ELSE 1
        /\ Len(asked) =
               Len(AskedFor("searchMemories")) + Len(AskedFor("getPersonality"))
        /\ outcome = "ok" =>
               /\ Len(returned[1]) = 3
               /\ returned[1][3] = call.userMessage
               /\ StartsWith(returned[1][1], LiteralPrefix(template.system))
               /\ StartsWith(returned[1][2], LiteralPrefix(template.context))

\* A prompt built with a personality in the criteria, from a message and a
\* context made of placeholders and replacement patterns.
C20_Witness ==
    /\ call.op = "buildPrompt"
    /\ outcome = "ok"
    /\ call.params = [limit |-> 1, personality |-> StoredProfile]
    /\ call.userMessage = <<ContextSlot, "$&">>
    /\ call.context = <<"$&", PersonalitySlot>>
    /\ Len(call.found.value) = 2
    /\ asked = << [op |-> "searchMemories", params |-> call.params] >>
    /\ returned[1][3] = <<ContextSlot, "$&">>
    /\ template = DEFAULT_TEMPLATE

----------------------------------------------------------------------------
\* Persistence and events of the store

MutatingOps == {"createMemory", "updateMemory", "deleteMemory", "linkMemories"}

\* The last call changed the collection or touched a record of it.
WroteCollection ==
    \/ call.op \in MutatingOps /\ outcome = "ok"
    \/ call.op = "getMemory" /\ MapHas(pre, call.id) /\ outcome = "ok"

\* C21: with calls issued one at a time and every save succeeding, when a
\* createMemory, updateMemory, deleteMemory, linkMemories or a getMemory on
\* a stored id resolves, the one snapshot it wrote and the snapshot the
\* provider holds are the whole collection: the same records with the same
\* fields in the same order.
C21_SnapshotEqualsCollection ==
    WroteCollection => /\ saved = <<memories>>
                       /\ persisted = memories

\* A getMemory that touched one of two stored records.
C21_Witness ==
    /\ call.op = "getMemory"
    /\ outcome = "ok"
    /\ Len(memories) = 2
    /\ memories # pre
    /\ persisted = memories
    /\ saved = <<memories>>

\* The collection holds what the last call's mutation made of pre.
MutationKept ==
    /\ call.op = "createMemory" =>
           \E i \in 1..Len(memories) :
               /\ memories[i].ord = NextOrd(pre)
               /\ memories[i].text = call.arg.text
               /\ memories[i].importance = call.arg.importance
    /\ call.op = "updateMemory" =>
           /\ MapGet(memories, call.id).linked_memories =
                  call.arg.linked_memories
           /\ Len(memories) = Len(pre)
    /\ call.op = "deleteMemory" =>
           /\ ~MapHas(memories, call.id)
           /\ \A i \in 1..Len(memories) :
                  ~includes(memories[i].linked_memories, call.id)
    /\ call.op = "linkMemories" =>
           /\ includes(Links(memories, call.id), call.target)
           /\ includes(Links(memories, call.target), call.id)

\* C22: a createMemory, updateMemory, deleteMemory or linkMemories whose
\* save fails rejects with that failure; the collection keeps the mutation
\* (nothing is rolled back), the persisted snapshot keeps what it held, and
\* no event is emitted.
C22_FailedSaveKeepsMutation ==
    /\ [](call.op \in MutatingOps /\ outcome = "savefail" =>
              /\ MutationKept
              /\ saved = <<memories>>
              /\ emitted = <<>>
              /\ returned = <<>>)
    /\ [][/\ calls' # calls
          /\ call'.op \in MutatingOps
          /\ saved' # <<>>
          /\ persisted' # saved'[1]
          => /\ outcome' = "savefail"
             /\ persisted' = persisted]_vars

\* A deleteMemory of a linked record whose save failed: the collection has
\* lost the record and the link to it, the snapshot holds both.
C22_Witness ==
    /\ call.op = "deleteMemory"
    /\ outcome = "savefail"
    /\ MapHas(persisted, call.id)
    /\ ~MapHas(memories, call.id)
    /\ \E i \in 1..Len(persisted) :
           includes(persisted[i].linked_memories, call.id)
    /\ Len(memories) = 1

\* The type of the event of a mutating operation.
EventType(op) ==
    CASE op = "createMemory" -> "create"
      [] op = "updateMemory" -> "update"
      [] op = "deleteMemory" -> "delete"
      [] op = "linkMemories" -> "link"

\* C23: a createMemory, updateMemory, deleteMemory or linkMemories that
\* resolves has emitted exactly one event, with its save completed: of type
\* create with the new record, update with the merged record, delete with
\* the removed record as it was, or link with the source record and
\* linked_to = [targetId].  Every other call, and every call that rejects,
\* has emitted none.
C23_OneEventPerMutation ==
    IF call.op \in MutatingOps /\ outcome = "ok"
    THEN /\ Len(emitted) = 1
         /\ emitted[1].type = EventType(call.op)
         /\ persisted = memories
         /\ call.op = "createMemory" =>
                /\ emitted[1] = [type |-> "create", memory |-> returned[1]]
                /\ emitted[1].memory.ord = NextOrd(pre)
                /\ MapGet(memories, emitted[1].memory.id) = emitted[1].memory
         /\ call.op = "updateMemory" =>
                /\ emitted[1] = [type |-> "update", memory |-> returned[1]]
                /\ emitted[1].memory = MapGet(memories, call.id)
         /\ call.op = "deleteMemory" =>
                emitted[1] = [type |-> "delete", memory |-> MapGet(pre, call.id)]
         /\ call.op = "linkMemories" =>
                emitted[1] = [type |-> "link",
                              memory |-> MapGet(memories, call.id),
                              linked_to |-> <<call.target>>]
    ELSE emitted = <<>>

\* A linkMemories that resolved, and whose event carries the source with
\* the target in its list.
C23_Witness ==
    /\ call.op = "linkMemories"
    /\ outcome = "ok"
    /\ call.id # call.target
    /\ ~includes(Links(pre, call.id), call.target)
    /\ Len(emitted) = 1
    /\ includes(emitted[1].memory.linked_memories, call.target)

----------------------------------------------------------------------------
\* Identifiers, scores and link lists of the stored records

\* C24: no two stored memories share an id, and a createMemory that
\* resolves adds one record and leaves every stored record where and as it
\* was: the collection grows by exactly one, and the new record's id and
\* glimpse_id are those of no record stored before, whatever the generator
\* returns.
C24_IdentifiersUnique ==
    /\ \A i, j \in 1..Len(memories) :
           i # j => memories[i].id # memories[j].id
    /\ call.op = "createMemory" /\ outcome = "ok" =>
           /\ Len(memories) = Len(pre) + 1
           /\ SubSeq(memories, 1, Len(pre)) = pre
           /\ \A i \in 1..Len(pre) :
                  /\ pre[i].id # returned[1].id
                  /\ pre[i].glimpse_id # returned[1].glimpse_id

\* C25: every stored memory has importance in [0,1] and emotion_score in
\* [-1,1], whatever numbers createMemory and updateMemory were given.
C25_ScoresInDomain ==
    \A i \in 1..Len(memories) :
        /\ memories[i].importance \in 0..10
        /\ memories[i].emotion_score \in -10..10

\* C26: no stored memory's linked_memories holds the memory's own id, and
\* none holds an id twice.
C26_NoSelfLinkNoDuplicate ==
    \A i \in 1..Len(memories) :
        /\ ~includes(memories[i].linked_memories, memories[i].id)
        /\ NoDuplicates(memories[i].linked_memories)

----------------------------------------------------------------------------
\* getMemory

\* C27: getMemory(id) on an id that is not stored resolves with no record,
\* issues no save and changes neither the collection nor the snapshot; on a
\* stored id it sets that record's last_accessed and nothing else of any
\* record, hands the whole collection to the provider and, its save
\* completed, resolves with that record; it emits no event in either case.
C27_GetMemoryTouchesOnly ==
    /\ [](call.op = "getMemory" =>
              /\ emitted = <<>>
              /\ IF ~MapHas(pre, call.id)
                 THEN /\ outcome = "ok"
                      /\ returned = <<>>
                      /\ saved = <<>>
                      /\ memories = pre
                 ELSE /\ Len(memories) = Len(pre)
                      /\ \A i \in 1..Len(pre) :
                             memories[i] =
                                 IF pre[i].id = call.id
                                 THEN Spread(pre[i],
                                             [last_accessed |->
                                                  memories[i].last_accessed])
                                 ELSE pre[i]
                      /\ saved = <<memories>>
                      /\ outcome = "ok" =>
                             /\ returned = <<MapGet(memories, call.id)>>
                             /\ persisted = memories)
    /\ [][/\ calls' # calls
          /\ call'.op = "getMemory"
          => IF MapHas(memories, call'.id)
             THEN MapGet(memories', call'.id).last_accessed = now
             ELSE persisted' = persisted]_vars

\* Both cases: a getMemory on an id that is not stored...
C27_WitnessAbsent ==
    /\ call.op = "getMemory"
    /\ ~MapHas(pre, call.id)
    /\ Len(pre) = 2
    /\ outcome = "ok"
    /\ returned = <<>>

\* ...and one on a stored record that had not been read before.
C27_Witness ==
    /\ call.op = "getMemory"
    /\ MapHas(pre, call.id)
    /\ "last_accessed" \notin DOMAIN MapGet(pre, call.id)
    /\ outcome = "ok"
    /\ returned[1].last_accessed = now
    /\ Len(pre) = 2
    /\ memories # pre
    /\ persisted = memories

----------------------------------------------------------------------------
\* Calls in flight (checked under SpecRace)

\* The calls whose write has completed.
Resolved == { i \in 2..Len(inflight) : inflight[i].state = "resolved" }

\* The one of them whose write completed last.
LastCompleted ==
    CHOOSE i \in Resolved : \A j \in Resolved : inflight[j].at <= inflight[i].at

\* The load was over before the first call was made.
LoadedFirst ==
    /\ inflight[1].state \in {"done", "failed"}
    /\ inflight[1].callsBefore = 0

\* No load and no write is pending.
Quiescent ==
    \A i \in 1..Len(inflight) : inflight[i].state \notin {"issued", "read", "saving"}

\* C28: calls in flight together are not serialized.  Each hands the
\* provider the collection as it found and changed it, the provider holds
\* the snapshot of whichever write completed last, and the collection is the
\* one the last call handed over; so when the write of an earlier call
\* completes after the write of a later one, both calls resolve and the
\* snapshot lacks the later call's change, which the collection has.
C28_LastWriteWins ==
    /\ Resolved # {} => persisted = inflight[LastCompleted].snapshot
    /\ LoadedFirst /\ saved # <<>> => memories = saved[Len(saved)]
    /\ \A i \in Resolved : inflight[i].snapshot \in
           { saved[k] : k \in 1..Len(saved) }

\* Two createMemory calls made after the load, both resolved, the write of
\* the first completed last: the second record is stored and not persisted.
C28_Witness ==
    /\ LoadedFirst
    /\ calls = 2
    /\ Resolved = {2, 3}
    /\ inflight[2].call.op = "createMemory"
    /\ inflight[3].call.op = "createMemory"
    /\ inflight[2].at > inflight[3].at
    /\ MapHas(memories, inflight[2].value[1].id)
    /\ MapHas(memories, inflight[3].value[1].id)
    /\ MapHas(persisted, inflight[2].value[1].id)
    /\ ~MapHas(persisted, inflight[3].value[1].id)
    /\ Len(emitted) = 2

\* deleteMemory was called for the id.
DeleteCalled(id) ==
    \E i \in 2..Len(inflight) :
        /\ inflight[i].call.op = "deleteMemory"
        /\ inflight[i].call.id = id

\* The records the manager was given: those of the snapshot it loaded and
\* those its resolved createMemory calls returned.
Entrusted ==
    { inflight[1].snapshot[k] : k \in 1..Len(inflight[1].snapshot) }
    \cup { inflight[i].value[1] :
             i \in { j \in Resolved : inflight[j].call.op = "createMemory" } }

\* C29: once the load and every call have completed, every record of the
\* loaded snapshot and every record a createMemory returned is stored and
\* persisted, unless deleteMemory was called for it; createMemory calls
\* made before the load had finished included.
C29_NoRecordLost ==
    Quiescent /\ inflight[1].state = "done" =>
        \A record \in Entrusted :
            \/ DeleteCalled(record.id)
            \/ /\ MapHas(memories, record.id)
               /\ MapHas(persisted, record.id)

----------------------------------------------------------------------------
\* Initialization of the profile (checked under SpecConstructed)

\* C30: when loadPersonality returned a stored profile, the manager holds
\* that profile after initialize, whether or not the savePersonality of
\* initialize succeeded; it holds the default profile only when nothing was
\* stored or the load itself failed.
C30_StoredProfileKept ==
    call.op = "initialize" =>
        IF call.loadOk /\ call.loaded # Absent
        THEN personality = call.loaded
        ELSE personality = DefaultProfile


----------------------------------------------------------------------------
\* Managers side by side (checked under SpecShared)

IsolatedOps ==
    {"updateTrait", "addValue", "removeValue", "updateCommunicationStyle"}

\* A call of one of the four handlers on a manager whose provider was empty
\* when it was constructed has just been made.
DefaultInstanceActs ==
    /\ calls' # calls
    /\ call'.op \in IsolatedOps
    /\ managers[call'.on].loaded = Absent

\* C31: updateTrait, addValue, removeValue and updateCommunicationStyle on a
\* manager that was initialized from the default profile change neither the
\* profile another manager returns nor the default profile a manager
\* constructed later over an empty provider is initialized to.
C31_InstancesIsolated ==
    [][DefaultInstanceActs =>
         /\ \A j \in 1..Len(managers) :
              j # call'.on => ProfileOf(j)' = ProfileOf(j)
         /\ ProfileAt(heap, DefaultAt)' = ProfileAt(heap, DefaultAt)]_vars


----------------------------------------------------------------------------
\* Links of the store (checked under SpecLinks)

\* The ids in link lists that are the id of no stored memory.
Dangling(mems) ==
    { linkId \in UNION { { mems[i].linked_memories[k] :
                              k \in 1..Len(mems[i].linked_memories) } :
                            i \in 1..Len(mems) } :
        ~MapHas(mems, linkId) }

\* C32: from the empty store, with createMemory drafts that supply no
\* linked_memories and no updateMemory, every id in the linked_memories of
\* a stored memory is the id of a stored memory, after every createMemory,
\* linkMemories, deleteMemory and getMemory call, whether or not its save
\* succeeded.
C32_NoDanglingLinks == Dangling(memories) = {}

\* deleteMemory has removed a memory that another memory, which is still
\* stored, was linked to.
C32_Witness ==
    /\ call.op = "deleteMemory"
    /\ MapHas(pre, call.id)
    /\ ~MapHas(memories, call.id)
    /\ \E i \in 1..Len(memories) :
           /\ MapHas(pre, memories[i].id)
           /\ Linked(pre, memories[i].id, call.id)


----------------------------------------------------------------------------
\* The two searches (checked under SpecProviders)

\* C33: over the same collection, and for criteria made of query,
\* importance_threshold and limit only, LocalStorageMemoryProvider's
\* searchMemories returns the sequence MemoryManager's searchMemories
\* returns.
C33_SearchesAgree ==
    call.op = "providerSearchMemories" =>
        returned = SearchResult(call.arg, memories)

====
